---------------------------- MODULE Spec2Model ----------------------------
(***************************************************************************)
(* Formula-preserving translation pipeline of since_translator:            *)
(*   FormulaExtractor      (services/formula_extractor.py)                 *)
(*   FormulaRecognizer     (services/formula_recognizer.py)                *)
(*   TranslationService    (services/translator.py)                        *)
(*   TranslationPipeline   (services/pipeline.py)                          *)
(*   DocumentBuilder       (services/document_builder.py)                  *)
(*                                                                         *)
(* A text is a sequence of characters, each character a one-element        *)
(* string; offsets are 0-based and spans half-open, as in Python.          *)
(***************************************************************************)
EXTENDS Integers, Sequences, FiniteSets, TLC

VARIABLES
    \* FormulaExtractor.extract / restore
    xpc, text, result_text, formulas, restored,
    \* TranslationService.translate
    tpc, configured, paragraphs, protected_items, glossary_terms,
    system_prompt, requests, responses, para_idx, current_chunk,
    current_size, translated_parts, validation_log, translated, lost_report,
    \* FormulaRecognizer.recognize
    rpc, available, image_ok, max_retries, backoff_factor, attempt, events,
    recognized_formula,
    \* TranslationPipeline.process and DocumentBuilder.build
    ppc, config, page_count, formulas_count, formula_index, recognized,
    translated_markers, document, pipeline_result,
    \* create_placeholder and the marker numbering of extract
    scheme, placeholder_counter, token_map,
    \* translate_file of main.py: its requests and the translator service
    uploads, file_pc, page_images, docx_page_images,
    \* the event loop that hosts the runs of TranslationPipeline.process
    loop_owner, runs,
    \* FormulaRecognizer.recognize_batch
    bpc, images, batch_index, results, batch_log,
    \* TranslationPipeline._recognize_formulas over the pages of a document
    gpc, doc_pages, has_page_images, formula_pages, rec_index,
    recognized_from,
    \* masking followed by unmasking, in either token scheme
    upc, unmask_scheme, input_text, masked, unmask_items, sorted_items,
    unmasked,
    restore_order

xvars == <<xpc, text, result_text, formulas, restored>>
tin == <<configured, paragraphs, protected_items, glossary_terms>>
tchunk == <<para_idx, current_chunk, current_size, translated_parts>>
tvars == <<tpc, tin, system_prompt, requests, responses, tchunk,
           validation_log, translated, lost_report>>
rin == <<available, image_ok, max_retries, backoff_factor>>
rvars == <<rpc, rin, attempt, events, recognized_formula>>
pin == <<config, page_count, formulas_count>>
pvars == <<ppc, pin, formula_index, recognized, translated_markers, document,
           pipeline_result>>
avars == <<scheme, placeholder_counter, token_map>>
fvars == <<uploads, file_pc, page_images, docx_page_images>>
hvars == <<loop_owner, runs>>
bvars == <<bpc, images, batch_index, results, batch_log>>
gvars == <<gpc, doc_pages, has_page_images, formula_pages, rec_index,
           recognized_from>>
uvars == <<upc, unmask_scheme, input_text, masked, unmask_items,
           sorted_items, unmasked, restore_order>>
lvars == <<gvars, uvars>>
evars == <<avars, fvars, hvars, bvars, lvars>>
vars == <<xvars, tvars, rvars, pvars, evars>>

----------------------------------------------------------------------------
(* Characters and the character classes the regular expressions use.       *)

NL == "\n"
BS == "\\"

\* Stand-ins for the Greek letters of the classes [α-ωΑ-ΩΔ].
Greek == {"alpha", "omega", "Delta"}
Latin == {"a", "b", "c", "d", "e", "f", "g", "h", "i", "j", "k", "l", "m",
          "n", "o", "p", "q", "r", "s", "t", "u", "v", "w", "x", "y", "z",
          "A", "B", "C", "D", "E", "F", "G", "H", "I", "J", "K", "L", "M",
          "N", "O", "P", "Q", "R", "S", "T", "U", "V", "W", "X", "Y", "Z"}
Digit == {"0", "1", "2", "3", "4", "5", "6", "7", "8", "9"}
\* [=+\-*/^_]
MathOps == {"=", "+", "-", "*", "/", "^", "_"}
\* \s
Space == {" ", NL}

\* [a-zA-Zα-ωΑ-ΩΔ]
IsLetter(c) == c \in Latin \cup Greek
\* [a-zA-Z0-9α-ωΑ-ΩΔ]
IsAlnum(c) == c \in Latin \cup Greek \cup Digit
\* [a-zA-Z0-9α-ωΑ-ΩΔ+\-]
IsIndexChar(c) == c \in Latin \cup Greek \cup Digit \cup {"+", "-"}
\* \w
IsWord(c) == c \in Latin \cup Greek \cup Digit \cup {"_"}

\* The character at 0-based offset i, "" outside the text.
At(t, i) == IF i >= 0 /\ i < Len(t) THEN t[i + 1] ELSE ""
\* t[s:e]
Slice(t, s, e) == SubSeq(t, s + 1, e)

NoMatch == 0 - 1

MinOf(S) == CHOOSE k \in S : \A j \in S : k <= j
MaxOf(S) == CHOOSE k \in S : \A j \in S : k >= j

\* First offset >= from whose character is a line break, Len(t) when none.
LineEnd(t, from) ==
    LET S == {k \in from..(Len(t) - 1) : t[k + 1] = NL}
    IN  IF S = {} THEN Len(t) ELSE MinOf(S)

\* First offset >= from whose character is not whitespace, Len(t) when none.
SkipSpace(t, from) ==
    LET S == {k \in from..(Len(t) - 1) : t[k + 1] \notin Space}
    IN  IF S = {} THEN Len(t) ELSE MinOf(S)

\* End of the maximal run of characters of the class C that starts at from.
RunEnd(t, from, C) ==
    LET S == {k \in from..(Len(t) - 1) : t[k + 1] \notin C}
    IN  IF S = {} THEN Len(t) ELSE MinOf(S)

\* \b before a word character at pos.
WordBoundary(t, pos) == ~IsWord(At(t, pos - 1))

----------------------------------------------------------------------------
(* The eight patterns of _build_patterns: for each, the end offset of the  *)
(* match that starts at pos, or NoMatch.                                   *)

\* open (.*?) close, DOTALL, with two-character delimiters BS o and BS c.
MatchDelimited(t, pos, o, c) ==
    IF At(t, pos) = BS /\ At(t, pos + 1) = o
    THEN LET S == {k \in (pos + 2)..(Len(t) - 2) : t[k + 1] = BS /\ t[k + 2] = c}
         IN  IF S = {} THEN NoMatch ELSE MinOf(S) + 2
    ELSE NoMatch

\* 1. latex_display  \\\[(.*?)\\\]
MatchLatexDisplay(t, pos) == MatchDelimited(t, pos, "[", "]")

\* 2. latex_inline  \\\((.*?)\\\)
MatchLatexInline(t, pos) == MatchDelimited(t, pos, "(", ")")

\* 3. dollar_formula  \$\$?(.*?)\$\$?
MatchDollar(t, pos) ==
    IF At(t, pos) # "$" THEN NoMatch
    ELSE LET two == At(t, pos + 1) = "$"
             from == IF two THEN pos + 2 ELSE pos + 1
             S == {k \in from..(Len(t) - 1) : t[k + 1] = "$"}
         IN  IF S # {}
             THEN LET p == MinOf(S)
                  IN  IF At(t, p + 1) = "$" THEN p + 2 ELSE p + 1
             ELSE IF two THEN pos + 2 ELSE NoMatch

MaxLineRun == 200
MaxGreekRun == 100
MaxParenRun == 50

\* The tail  \s*[^\n]{1,200}?(?=\n|$)  after an operator at o: the greedy
\* \s* keeps the most whitespace that leaves one character on a line.
MathTail(t, o) ==
    LET qmax == SkipSpace(t, o + 1)
        Q == {q \in (o + 1)..qmax :
                 q < Len(t) /\ t[q + 1] # NL /\ LineEnd(t, q) - q <= MaxLineRun}
    IN  IF Q = {} THEN NoMatch ELSE LineEnd(t, MaxOf(Q))

\* 4. math_expression
\*    (?:^|\n)([^\n]{1,200}?[=+\-*/^_]\s*[^\n]{1,200}?)(?=\n|$)  MULTILINE
MatchMathExpression(t, pos) ==
    LET atStart == pos = 0 \/ At(t, pos - 1) = NL
        s0 == IF atStart /\ pos < Len(t) /\ At(t, pos) # NL THEN pos
              ELSE IF At(t, pos) = NL THEN pos + 1
              ELSE NoMatch
    IN  IF s0 = NoMatch THEN NoMatch
        ELSE LET O == {o \in (s0 + 1)..(LineEnd(t, s0) - 1) :
                          /\ t[o + 1] \in MathOps
                          /\ o - s0 <= MaxLineRun
                          /\ MathTail(t, o) # NoMatch}
             IN  IF O = {} THEN NoMatch ELSE MathTail(t, MinOf(O))

\* \{?[a-zA-Z0-9α-ωΑ-ΩΔ+\-]+\}?  from offset i: its end, or NoMatch.
MatchIndexGroup(t, i) ==
    LET j == IF At(t, i) = "{" THEN i + 1 ELSE i
        r == RunEnd(t, j, Latin \cup Greek \cup Digit \cup {"+", "-"})
    IN  IF r = j THEN NoMatch
        ELSE IF At(t, r) = "}" THEN r + 1 ELSE r

\* 5. subscript_superscript
\*    \b L[_^]G | \b L G [_^] G   with L a letter and G the index group
MatchSubSuper(t, pos) ==
    IF ~(IsLetter(At(t, pos)) /\ WordBoundary(t, pos)) THEN NoMatch
    ELSE LET a == IF At(t, pos + 1) \in {"_", "^"}
                  THEN MatchIndexGroup(t, pos + 2) ELSE NoMatch
             g == MatchIndexGroup(t, pos + 1)
             b == IF g # NoMatch /\ At(t, g) \in {"_", "^"}
                  THEN MatchIndexGroup(t, g + 1) ELSE NoMatch
         IN  IF a # NoMatch THEN a ELSE b

\* 6. greek_letters  \b[greek]\s*[=+\-*/^_]\s*[^\n]{1,100}
MatchGreek(t, pos) ==
    IF ~(At(t, pos) \in Greek /\ WordBoundary(t, pos)) THEN NoMatch
    ELSE LET o == SkipSpace(t, pos + 1)
         IN  IF At(t, o) \notin MathOps THEN NoMatch
             ELSE LET qmax == SkipSpace(t, o + 1)
                      Q == {q \in (o + 1)..qmax : q < Len(t) /\ t[q + 1] # NL}
                  IN  IF Q = {} THEN NoMatch
                      ELSE LET q == MaxOf(Q)
                               e == LineEnd(t, q)
                           IN  IF e - q > MaxGreekRun THEN q + MaxGreekRun ELSE e

\* \([^)]{1,50}\)  from offset i: its end, or NoMatch.
MatchParenGroup(t, i) ==
    IF At(t, i) # "(" THEN NoMatch
    ELSE LET S == {k \in (i + 1)..(Len(t) - 1) : t[k + 1] = ")"}
         IN  IF S = {} THEN NoMatch
             ELSE LET k == MinOf(S)
                  IN  IF k - i - 1 >= 1 /\ k - i - 1 <= MaxParenRun
                      THEN k + 1 ELSE NoMatch

\* \s*/\s*  from offset i: its end, or NoMatch.
MatchSlash(t, i) ==
    LET s == SkipSpace(t, i)
    IN  IF At(t, s) = "/" THEN SkipSpace(t, s + 1) ELSE NoMatch

\* 7. fractions  \(..\)\s*/\s*\(..\) | [alnum]+\s*/\s*[alnum]+
MatchFraction(t, pos) ==
    LET p1 == MatchParenGroup(t, pos)
        s1 == IF p1 = NoMatch THEN NoMatch ELSE MatchSlash(t, p1)
        a == IF s1 = NoMatch THEN NoMatch ELSE MatchParenGroup(t, s1)
        r1 == RunEnd(t, pos, Latin \cup Greek \cup Digit)
        s2 == IF r1 = pos THEN NoMatch ELSE MatchSlash(t, r1)
        r2 == IF s2 = NoMatch THEN NoMatch ELSE RunEnd(t, s2, Latin \cup Greek \cup Digit)
        b == IF s2 = NoMatch \/ r2 = s2 THEN NoMatch ELSE r2
    IN  IF a # NoMatch THEN a ELSE b

IsDigit(c) == c \in Digit

\* 8. numbered_formula  \([0-9]+\.[0-9]+\)\s*[^\n]{1,200}?[=+\-*/^_]
MatchNumbered(t, pos) ==
    LET d1 == RunEnd(t, pos + 1, Digit)
        d2 == RunEnd(t, d1 + 1, Digit)
    IN  IF ~(/\ At(t, pos) = "("
             /\ d1 > pos + 1
             /\ At(t, d1) = "."
             /\ d2 > d1 + 1
             /\ At(t, d2) = ")")
        THEN NoMatch
        ELSE LET r == d2 + 1
                 qmax == SkipSpace(t, r)
                 Op(q) == {o \in (q + 1)..(LineEnd(t, q) - 1) :
                              t[o + 1] \in MathOps /\ o - q <= MaxLineRun}
                 Q == {q \in r..qmax :
                          q < Len(t) /\ t[q + 1] # NL /\ Op(q) # {}}
             IN  IF Q = {} THEN NoMatch ELSE MinOf(Op(MaxOf(Q))) + 1

PatternCount == 8

\* self.patterns[p - 1].match(t, pos)
MatchAt(p, t, pos) ==
    CASE p = 1 -> MatchLatexDisplay(t, pos)
      [] p = 2 -> MatchLatexInline(t, pos)
      [] p = 3 -> MatchDollar(t, pos)
      [] p = 4 -> MatchMathExpression(t, pos)
      [] p = 5 -> MatchSubSuper(t, pos)
      [] p = 6 -> MatchGreek(t, pos)
      [] p = 7 -> MatchFraction(t, pos)
      [] p = 8 -> MatchNumbered(t, pos)

\* pattern.finditer(t): the leftmost non-overlapping matches from pos on,
\* as <<start, end>> pairs (no pattern matches the empty string).
RECURSIVE FindIter(_, _, _)
FindAt(p, t, s, e) == <<<<s, e>>>> \o FindIter(p, t, e)

FindIn(p, t, S) ==
    IF S = {} THEN <<>> ELSE FindAt(p, t, MinOf(S), MatchAt(p, t, MinOf(S)))

FindIter(p, t, pos) ==
    FindIn(p, t, {k \in pos..(Len(t) - 1) : MatchAt(p, t, k) # NoMatch})


----------------------------------------------------------------------------
(* FormulaExtractor.extract, _is_likely_formula and restore.               *)

\* start < existing_end and end > existing_start, for some accepted match
IsOverlap(s, e, M) == \E i \in 1..Len(M) : s < M[i][2] /\ e > M[i][1]

RECURSIVE AddMatchesLast(_, _)
AddMatchesLast(M, ms) ==
    IF ms = <<>> THEN M
    ELSE LET m == Head(ms)
             rest == SelectSeq(M, LAMBDA a : ~(m[1] < a[2] /\ m[2] > a[1]))
         IN  AddMatchesLast(Append(rest, m), Tail(ms))

\* The inner loop of extract over one pattern's matches.
RECURSIVE AddMatches(_, _)
AddMatches(M, ms) ==
    IF ms = <<>> THEN M
    ELSE LET m == Head(ms)
         IN  AddMatches(IF IsOverlap(m[1], m[2], M) THEN M ELSE Append(M, m),
                        Tail(ms))

\* all_matches after the patterns p..8 have been applied in order.
RECURSIVE CollectMatches(_, _, _)
CollectMatches(t, p, M) ==
    IF p > PatternCount THEN M
    ELSE CollectMatches(t, p + 1, AddMatches(M, FindIter(p, t, 0)))

\* all_matches.sort(key=lambda x: x[0], reverse=True); accepted matches do
\* not overlap and are not empty, so their starts differ.
SortByStartDesc(M) ==
    LET R == {M[i] : i \in 1..Len(M)}
    IN  [i \in 1..Len(M) |->
            CHOOSE m \in R : Cardinality({k \in R : k[1] > m[1]}) = i - 1]

\* str.strip()
Strip(t) ==
    LET S == {k \in 1..Len(t) : t[k] \notin Space}
    IN  IF S = {} THEN <<>> ELSE SubSeq(t, MinOf(S), MaxOf(S))

MinFormulaLen == 3
MaxFormulaLen == 300

\* [_^]\{?[a-zA-Z0-9]+\}?  occurs in t
HasIndexMark(t) ==
    \E k \in 1..Len(t) :
        /\ t[k] \in {"_", "^"}
        /\ LET j == IF At(t, k) = "{" THEN k + 1 ELSE k
           IN  At(t, j) \in Latin \cup Digit

IsLikelyFormula(raw) ==
    LET t == Strip(raw)
        hasLatex == \E k \in 1..Len(t) :
                       \/ t[k] = "$"
                       \/ t[k] = BS /\ At(t, k) \in {"[", "(", "]", ")"}
        has_math_ops == \E k \in 1..Len(t) : t[k] \in MathOps
        has_vars == \E k \in 1..Len(t) : IsLetter(t[k])
        has_numbers == \E k \in 1..Len(t) : t[k] \in Digit
    IN  IF Len(t) < MinFormulaLen THEN FALSE
        ELSE IF hasLatex THEN TRUE
        ELSE IF has_math_ops /\ (has_vars \/ has_numbers)
             THEN Len(t) <= MaxFormulaLen
        ELSE HasIndexMark(t)

\* str(n) for n >= 0
RECURSIVE Decimal(_)
Decimal(n) ==
    LET d == <<"0", "1", "2", "3", "4", "5", "6", "7", "8", "9">>[(n % 10) + 1]
    IN  IF n < 10 THEN <<d>> ELSE Decimal(n \div 10) \o <<d>>

\* f"<<<FORMULA_{index}>>>"
Marker(index) ==
    <<"<", "<", "<", "F", "O", "R", "M", "U", "L", "A", "_">>
        \o Decimal(index) \o <<">", ">", ">">>

\* The replacement loop of extract: ms the sorted matches still to visit,
\* res the text so far, fs the formulas so far (fs[i + 1] is formulas[i]).
RECURSIVE MaskMatches(_, _, _, _)
MaskMatches(t, ms, res, fs) ==
    IF ms = <<>> THEN <<res, fs>>
    ELSE LET m == Head(ms)
             formula_text == Slice(t, m[1], m[2])
         IN  IF Len(Strip(formula_text)) < MinFormulaLen
                    \/ ~IsLikelyFormula(formula_text)
             THEN MaskMatches(t, Tail(ms), res, fs)
             ELSE MaskMatches(t, Tail(ms),
                              Slice(res, 0, m[1]) \o Marker(Len(fs))
                                  \o Slice(res, m[2], Len(res)),
                              Append(fs, formula_text))

\* all_matches of extract(t), in the order of the replacement loop
AllMatches(t) == SortByStartDesc(CollectMatches(t, 1, <<>>))

\* extract(t) = <<result_text, formulas>>
ExtractFormulas(t) == MaskMatches(t, AllMatches(t), t, <<>>)

\* str.replace(pat, rep) for a non-empty pat
RECURSIVE Replace(_, _, _)
Replace(t, pat, rep) ==
    LET S == {k \in 0..(Len(t) - Len(pat)) : Slice(t, k, k + Len(pat)) = pat}
    IN  IF S = {} THEN t
        ELSE Slice(t, 0, MinOf(S)) \o rep
                 \o Replace(Slice(t, MinOf(S) + Len(pat), Len(t)), pat, rep)

\* The loop of restore over formulas.items() from index i on (dict order is
\* insertion order, which is index order 0, 1, ...).
RECURSIVE RestoreFrom(_, _, _)
RestoreFrom(t, fs, i) ==
    IF i >= Len(fs) THEN t
    ELSE RestoreFrom(Replace(t, Marker(i), fs[i + 1]), fs, i + 1)

\* restore(text_with_markers, formulas)
RestoreFormulas(t, fs) == RestoreFrom(t, fs, 0)


----------------------------------------------------------------------------
(* The extractor run on its own: mask a text, then restore it.             *)

MaxPieces == 3

\* The fragments the input texts are built from.
Pieces ==
    { <<"x", "_", "1">>, <<NL>>, <<" ">>, <<"$", "$">>, <<"=">>, Marker(1),
      <<BS, "(", "x", "=", "1", BS, ")">>, <<BS, "(", "y", "=", "2", BS, ")">> }

RECURSIVE TextsOf(_)
TextsOf(n) ==
    IF n = 0 THEN {<<>>}
    ELSE LET S == TextsOf(n - 1) IN S \cup {s \o p : s \in S, p \in Pieces}

Texts == TextsOf(MaxPieces)

\* 'Energy equals \[E = mc^2\] in physics.'
EnergyFormula == <<BS, "[", "E", " ", "=", " ", "m", "c", "^", "2", BS, "]">>
EnergyPrefix ==
    <<"E", "n", "e", "r", "g", "y", " ", "e", "q", "u", "a", "l", "s", " ">>
EnergySuffix == <<" ", "i", "n", " ", "p", "h", "y", "s", "i", "c", "s", ".">>
EnergyExample == EnergyPrefix \o EnergyFormula \o EnergySuffix

XIdle ==
    /\ xpc = "off"
    /\ text = <<>>
    /\ result_text = <<>>
    /\ formulas = <<>>
    /\ restored = <<>>

XInit ==
    /\ xpc = "input"
    /\ text \in Texts \cup {EnergyExample}
    /\ result_text = <<>>
    /\ formulas = <<>>
    /\ restored = <<>>

\* text_with_markers, formulas = extract(text)
Extract ==
    /\ xpc = "input"
    /\ LET r == ExtractFormulas(text)
       IN  /\ result_text' = r[1]
           /\ formulas' = r[2]
    /\ xpc' = "extracted"
    /\ UNCHANGED <<text, restored>>

\* restore(text_with_markers, formulas)
Restore ==
    /\ xpc = "extracted"
    /\ restored' = RestoreFormulas(result_text, formulas)
    /\ xpc' = "restored"
    /\ UNCHANGED <<text, result_text, formulas>>

\* Texts that one explicitly delimited formula fills: the delimiters around
\* n copies of one character. all_matches of extract is then the one match
\* of the whole text, found by one of the first three patterns.
Delimiters == { <<<<BS, "[">>, <<BS, "]">>>>, <<<<BS, "(">>, <<BS, ")">>>>,
                <<<<"$">>, <<"$">>>> }
Fills == {"a", "=", "1"}
FillLens == {0, 1} \cup ((MaxFormulaLen - 6)..(MaxFormulaLen + 1))
Candidates ==
    {d[1] \o [i \in 1..n |-> f] \o d[2] :
        d \in Delimiters, f \in Fills, n \in FillLens}

FilterInit ==
    /\ xpc = "matched"
    /\ text \in Candidates
    /\ \E p \in 1..3 : MatchAt(p, text, 0) = Len(text)
    /\ result_text = text
    /\ formulas = <<>>
    /\ restored = <<>>

\* Lines 151-164 of extract: the replacement loop over the one match.
FilterMatch ==
    /\ xpc = "matched"
    /\ LET r == MaskMatches(text, <<<<0, Len(text)>>>>, text, <<>>)
       IN  /\ result_text' = r[1]
           /\ formulas' = r[2]
    /\ xpc' = "extracted"
    /\ UNCHANGED <<text, restored>>

----------------------------------------------------------------------------
(* TranslationService.translate. The masked text is its paragraphs         *)
(* (text.split('\n\n')), each with its length and the placeholders it      *)
(* holds; a placeholder __PROTECTED_i__ is named by its index i. A model   *)
(* response is the set of placeholders its text contains.                  *)

MaxItems == 2
MaxParas == 3

\* Paragraph lengths, in characters.
ParaLens == {36000, 80000}
\* Number of glossary terms relevant to the text (0: no glossary summary).
GlossaryTermCounts == {0, 60}
\* Kind of a protected payload: "fuel" contains '/LOX' or '_{'.
PayloadKinds == {"plain", "fuel"}

\* estimate_tokens(text) = len(text) // 3
EstimateTokens(len) == len \div 3

max_allowed_tokens == 25000

MinNat(a, b) == IF a <= b THEN a ELSE b

RECURSIVE SumLens(_)
SumLens(ps) == IF ps = <<>> THEN 0 ELSE Head(ps).len + SumLens(Tail(ps))

\* len('\n\n'.join(ps)) for a non-empty list of paragraphs
JoinedLen(ps) == SumLens(ps) + 2 * (Len(ps) - 1)

\* len(glossary_text) after get_glossary_summary(..., max_terms)
GlossaryTextLen(terms, max_terms) ==
    IF terms = 0 THEN 0 ELSE 2 + 96 + 60 * MinNat(terms, max_terms)

\* len(system_prompt) as built at lines 166-174 and 200-208
FullPromptLen(items, terms, max_terms) ==
    348 + (IF items = {} THEN 0 ELSE 170) + GlossaryTextLen(terms, max_terms)

\* len(strict_prompt), lines 285-288
StrictPromptLen(prompt_len) == prompt_len + 310

\* len(system_prompt) as rebuilt by the 429 handler, lines 324-347
ShrunkPromptLen(items, terms) ==
    127 + (IF items = {} THEN 0 ELSE 75) + GlossaryTextLen(terms, 20)

Items == DOMAIN protected_items

\* Paragraph indices i..j
Run(i, j) == [k \in 1..(j - i + 1) |-> i + k - 1]

ParasOf(chunk) == [k \in 1..Len(chunk) |-> paragraphs[chunk[k]]]

PlaceholdersOf(chunk) == UNION {paragraphs[chunk[k]].phs : k \in 1..Len(chunk)}

\* What one call of client.chat.completions.create can yield for a user text
\* holding the placeholders phs.
Outcomes(phs) ==
    {[status |-> "ok", present |-> S, empty |-> FALSE] : S \in SUBSET phs}
        \cup {[status |-> "ok", present |-> {}, empty |-> TRUE],
              [status |-> "rate_limit", present |-> {}, empty |-> FALSE],
              [status |-> "error", present |-> {}, empty |-> FALSE]}

Request(kind, temperature, chunk, prompt_len) ==
    [kind |-> kind, temperature |-> temperature, chunk |-> chunk,
     prompt_len |-> prompt_len]

NoPrompt == [len |-> 0, max_terms |-> 0]
NoResult == [status |-> "none", present |-> {}, response |-> 0]
NoReport == [ran |-> FALSE, lost |-> {}, reported |-> {}]

\* _restore_formulas_and_notations on a text holding the placeholders
\* present: the placeholders it finds lost, and those it prints together
\* with their original content (the first three lost ones, fuel only).
RestoreReport(items, present) ==
    IF DOMAIN items = {} THEN NoReport
    ELSE LET lost == DOMAIN items \ present
             firstLost == {p \in lost : Cardinality({q \in lost : q < p}) < 3}
         IN  [ran |-> TRUE, lost |-> lost,
              reported |-> {p \in firstLost : items[p] = "fuel"}]

TIdle ==
    /\ tpc = "off"
    /\ configured = FALSE
    /\ paragraphs = <<>>
    /\ protected_items = <<>>
    /\ glossary_terms = 0
    /\ system_prompt = NoPrompt
    /\ requests = <<>>
    /\ responses = <<>>
    /\ para_idx = 0
    /\ current_chunk = <<>>
    /\ current_size = 0
    /\ translated_parts = <<>>
    /\ validation_log = {}
    /\ translated = NoResult
    /\ lost_report = NoReport

\* The arguments of one call: the paragraphs of the masked text with the
\* placeholders each holds, one numbering of the placeholders for each way of
\* spreading them over the paragraphs, and payloads of one kind.
TInit ==
    /\ tpc = "start"
    /\ configured \in BOOLEAN
    /\ \E k \in 1..MaxParas, n \in 0..MaxItems :
          /\ \E ls \in [1..k -> ParaLens], place \in [0..(n - 1) -> 1..k] :
                /\ \A p, q \in 0..(n - 1) : p < q => place[p] <= place[q]
                /\ paragraphs =
                       [i \in 1..k |->
                           [len |-> ls[i],
                            phs |-> {p \in 0..(n - 1) : place[p] = i}]]
          /\ \E kind \in PayloadKinds :
                protected_items = [p \in 0..(n - 1) |-> kind]
    /\ glossary_terms \in GlossaryTermCounts
    /\ system_prompt = NoPrompt
    /\ requests = <<>>
    /\ responses = <<>>
    /\ para_idx = 0
    /\ current_chunk = <<>>
    /\ current_size = 0
    /\ translated_parts = <<>>
    /\ validation_log = {}
    /\ translated = NoResult
    /\ lost_report = NoReport

TextLen == JoinedLen(paragraphs)
Whole == Run(1, Len(paragraphs))

\* raise RuntimeError(...)
Raise(idx) ==
    /\ tpc' = "raised"
    /\ translated' = [status |-> "raised", present |-> {}, response |-> idx]

\* Lines 86-245 up to the first await: the size check, the glossary shrink
\* and the choice between the single call and the chunk loop.
TranslateStart ==
    /\ tpc = "start"
    /\ IF ~configured
       THEN /\ Raise(0)
            /\ UNCHANGED <<system_prompt, requests, tchunk>>
       ELSE LET p50 == FullPromptLen(Items, glossary_terms, 50)
                over == EstimateTokens(p50) + EstimateTokens(TextLen)
                            > max_allowed_tokens
                shrink == over /\ GlossaryTextLen(glossary_terms, 50) > 0
                p == IF shrink THEN FullPromptLen(Items, glossary_terms, 30)
                     ELSE p50
                split == over /\ EstimateTokens(p) + EstimateTokens(TextLen)
                                     > max_allowed_tokens
            IN  /\ system_prompt' =
                       [len |-> p, max_terms |-> IF shrink THEN 30 ELSE 50]
                /\ IF split
                   THEN /\ tpc' = "chunk_loop"
                        /\ para_idx' = 1
                        /\ current_chunk' = <<>>
                        /\ current_size' = EstimateTokens(p)
                        /\ translated_parts' = <<>>
                        /\ UNCHANGED requests
                   ELSE /\ tpc' = "await_first"
                        /\ requests' = <<Request("full", 3, Whole, p)>>
                        /\ UNCHANGED tchunk
                /\ UNCHANGED translated
    /\ UNCHANGED <<tin, responses, validation_log, lost_report>>

\* Lines 310-316: restore, then refuse an empty result.
Finish(o, idx) ==
    /\ lost_report' = RestoreReport(protected_items, o.present)
    /\ IF o.empty
       THEN Raise(idx)
       ELSE /\ tpc' = "returned"
            /\ translated' =
                   [status |-> "returned", present |-> o.present, response |-> idx]

\* Lines 318-359: the 429 handler rebuilds a smaller prompt and calls again.
ShrinkAndRetry ==
    LET p == ShrunkPromptLen(Items, glossary_terms)
    IN  /\ system_prompt' = [len |-> p, max_terms |-> 20]
        /\ requests' = Append(requests, Request("shrunk", 3, Whole, p))
        /\ tpc' = "await_shrunk"
        /\ UNCHANGED <<translated, lost_report>>

NeedsStrictRetryOnAnyLoss(items, present) == present # items

\* Line 281 inside the test of line 268: every placeholder is lost.
NeedsStrictRetry(items, present) == items # {} /\ present = {}

\* Lines 249-316 and 318-370 after the first call.
FirstResponse ==
    /\ tpc = "await_first"
    /\ \E o \in Outcomes(Items) :
          /\ responses' = Append(responses, o)
          /\ CASE o.status = "ok" ->
                    /\ \E L \in SUBSET (Items \ o.present) :
                          /\ Cardinality(L)
                                = MinNat(5, Cardinality(Items \ o.present))
                          /\ validation_log' = L
                    /\ IF NeedsStrictRetry(Items, o.present)
                       THEN /\ requests' =
                                   Append(requests,
                                          Request("strict", 1, Whole,
                                                  StrictPromptLen(system_prompt.len)))
                            /\ tpc' = "await_strict"
                            /\ UNCHANGED <<translated, lost_report>>
                       ELSE /\ Finish(o, 1)
                            /\ UNCHANGED requests
                    /\ UNCHANGED system_prompt
               [] o.status = "rate_limit" ->
                    /\ ShrinkAndRetry
                    /\ UNCHANGED validation_log
               [] OTHER ->
                    /\ Raise(1)
                    /\ UNCHANGED <<system_prompt, requests, validation_log,
                                   lost_report>>
    /\ UNCHANGED <<tin, tchunk>>

\* Lines 299-316 and 318-370 after the stricter call.
StrictResponse ==
    /\ tpc = "await_strict"
    /\ \E o \in Outcomes(Items) :
          /\ responses' = Append(responses, o)
          /\ CASE o.status = "ok" ->
                    /\ Finish(o, 2)
                    /\ UNCHANGED <<system_prompt, requests>>
               [] o.status = "rate_limit" -> ShrinkAndRetry
               [] OTHER ->
                    /\ Raise(2)
                    /\ UNCHANGED <<system_prompt, requests, lost_report>>
    /\ UNCHANGED <<tin, tchunk, validation_log>>

\* Lines 360-366 after the call of the 429 handler.
ShrunkResponse ==
    /\ tpc = "await_shrunk"
    /\ \E o \in Outcomes(Items) :
          /\ responses' = Append(responses, o)
          /\ IF o.status = "ok"
             THEN /\ tpc' = "returned"
                  /\ translated' =
                         [status |-> "returned", present |-> o.present,
                          response |-> Len(requests)]
                  /\ lost_report' = RestoreReport(protected_items, o.present)
             ELSE /\ Raise(Len(requests))
                  /\ UNCHANGED lost_report
    /\ UNCHANGED <<tin, tchunk, system_prompt, requests, validation_log>>

\* The test of line 221 for the paragraph at para_idx.
ChunkIsFull ==
    /\ current_size + EstimateTokens(paragraphs[para_idx].len)
           > max_allowed_tokens
    /\ current_chunk # <<>>

\* Lines 230-232: the paragraph joins the current chunk.
ChunkAppend ==
    /\ tpc = "chunk_loop"
    /\ para_idx <= Len(paragraphs)
    /\ ~ChunkIsFull
    /\ current_chunk' = Append(current_chunk, para_idx)
    /\ current_size' = current_size + EstimateTokens(paragraphs[para_idx].len)
    /\ para_idx' = para_idx + 1
    /\ UNCHANGED <<tpc, tin, system_prompt, requests, responses,
                   translated_parts, validation_log, translated, lost_report>>

\* Lines 222-226 and 235-239: the current chunk goes to _translate_chunk,
\* before the paragraph that does not fit or after the last paragraph
\* (current_chunk is never empty after the loop).
ChunkSubmit ==
    /\ tpc = "chunk_loop"
    /\ \/ para_idx <= Len(paragraphs) /\ ChunkIsFull
       \/ para_idx > Len(paragraphs) /\ current_chunk # <<>>
    /\ requests' = Append(requests,
                          Request("chunk", 3, current_chunk, system_prompt.len))
    /\ tpc' = "await_chunk"
    /\ UNCHANGED <<tin, system_prompt, responses, tchunk, validation_log,
                   translated, lost_report>>

ChunkAfterFlushEmpty(idx) == <<>>

\* Line 228: the paragraph that did not fit opens the next chunk.
ChunkAfterFlush(idx) == <<idx>>

\* _translate_chunk returns (lines 380-393), then lines 227-229 or 242-245.
ChunkResponse ==
    /\ tpc = "await_chunk"
    /\ \E o \in Outcomes(PlaceholdersOf(current_chunk)) :
          LET part == IF o.status = "ok"
                      THEN [chunk |-> current_chunk, present |-> o.present,
                            failed |-> FALSE]
                      ELSE [chunk |-> current_chunk,
                            present |-> PlaceholdersOf(current_chunk),
                            failed |-> TRUE]
              parts == Append(translated_parts, part)
              all == UNION {parts[k].present : k \in 1..Len(parts)}
          IN  /\ responses' = Append(responses, o)
              /\ translated_parts' = parts
              /\ IF para_idx <= Len(paragraphs)
                 THEN /\ current_chunk' = ChunkAfterFlush(para_idx)
                      /\ current_size' =
                             EstimateTokens(system_prompt.len)
                                 + EstimateTokens(paragraphs[para_idx].len)
                      /\ para_idx' = para_idx + 1
                      /\ tpc' = "chunk_loop"
                      /\ UNCHANGED <<translated, lost_report>>
                 ELSE /\ tpc' = "returned"
                      /\ translated' =
                             [status |-> "returned", present |-> all,
                              response |-> 0]
                      /\ lost_report' = RestoreReport(protected_items, all)
                      /\ UNCHANGED <<para_idx, current_chunk, current_size>>
    /\ UNCHANGED <<tin, system_prompt, requests, validation_log>>

----------------------------------------------------------------------------
(* FormulaRecognizer.recognize: one action per iteration of the retry      *)
(* loop. Waits are in half seconds, so that backoff_factor 0.5 is exact.   *)

MaxRetries == 3

\* backoff_factor, in half seconds
BackoffFactors == {1, 2}

\* Response bodies of a 200 answer that parses: which fields it carries, the
\* length of its text and the number of blanks in it.
Bodies ==
    {[latex |-> TRUE, mathml |-> TRUE, text_len |-> 12, blanks |-> 2],
     [latex |-> FALSE, mathml |-> FALSE, text_len |-> 0, blanks |-> 0],
     [latex |-> TRUE, mathml |-> FALSE, text_len |-> 150, blanks |-> 20]}

\* The Retry-After header of a 429 answer: absent, a number of seconds, or
\* text that int() rejects (an HTTP date).
RetryAfterValues ==
    {[header |-> "absent"], [header |-> "date"],
     [header |-> "seconds", seconds |-> 5]}

\* What one requests.post can yield.
RecognizerOutcomes ==
    {[kind |-> "ok", body |-> b] : b \in Bodies}
        \cup {[kind |-> "malformed"]}
        \cup {[kind |-> "rate_limit", retry_after |-> v] : v \in RetryAfterValues}
        \cup {[kind |-> "status"], [kind |-> "timeout"], [kind |-> "exception"]}

RECURSIVE Pow2(_)
Pow2(n) == IF n = 0 THEN 1 ELSE 2 * Pow2(n - 1)

\* backoff_factor * (2 ** attempt), in half seconds
Backoff(factor, a) == factor * Pow2(a)

\* int(x) seconds for x half seconds, in half seconds
IntSeconds(halves) == 2 * (halves \div 2)

NoFormula == [none |-> TRUE]

\* _parse_response, lines 174-214
ParseResponse(body) ==
    [none |-> FALSE, latex |-> body.latex, mathml |-> body.mathml,
     is_graph |-> body.text_len > 100 /\ body.blanks > 10]

Requested(o, a) == [ev |-> "request", attempt |-> a, outcome |-> o]
Slept(halves, a) == [ev |-> "sleep", attempt |-> a, halves |-> halves]

RIdle ==
    /\ rpc = "off"
    /\ available = FALSE
    /\ image_ok = FALSE
    /\ max_retries = 0
    /\ backoff_factor = 0
    /\ attempt = 0
    /\ events = <<>>
    /\ recognized_formula = NoFormula

RInit ==
    /\ rpc = "call"
    /\ available \in BOOLEAN
    /\ image_ok \in BOOLEAN
    /\ max_retries \in 1..MaxRetries
    /\ backoff_factor \in BackoffFactors
    /\ attempt = 0
    /\ events = <<>>
    /\ recognized_formula = NoFormula

\* Lines 94-128: the guards before the loop.
RecognizeCall ==
    /\ rpc = "call"
    /\ rpc' = IF available /\ image_ok THEN "loop" ELSE "done"
    /\ attempt' = 0
    /\ events' = <<>>
    /\ recognized_formula' = NoFormula
    /\ UNCHANGED rin

\* The handlers of lines 157-170 and the else branch of lines 147-155: wait
\* and go on unless this was the last attempt.
RetryOrGiveUp(o) ==
    IF attempt < max_retries - 1
    THEN /\ events' = events \o <<Requested(o, attempt),
                                   Slept(Backoff(backoff_factor, attempt), attempt)>>
         /\ attempt' = attempt + 1
         /\ rpc' = "loop"
    ELSE /\ events' = Append(events, Requested(o, attempt))
         /\ attempt' = attempt
         /\ rpc' = "done"

\* Lines 142-146: wait for Retry-After, or the backoff, and continue.
RateLimited(o) ==
    LET halves == IF o.retry_after.header = "absent"
                  THEN IntSeconds(Backoff(backoff_factor, attempt))
                  ELSE 2 * o.retry_after.seconds
    IN  /\ events' = events \o <<Requested(o, attempt), Slept(halves, attempt)>>
        /\ attempt' = attempt + 1
        /\ rpc' = IF attempt + 1 < max_retries THEN "loop" ELSE "done"

\* One iteration of the loop of lines 131-170 (return None of line 172 when
\* it was the last one).
RecognizeAttempt ==
    /\ rpc = "loop"
    /\ \E o \in RecognizerOutcomes :
          CASE o.kind = "ok" ->
                 /\ events' = Append(events, Requested(o, attempt))
                 /\ recognized_formula' = ParseResponse(o.body)
                 /\ rpc' = "done"
                 /\ UNCHANGED attempt
            [] o.kind = "rate_limit" /\ o.retry_after.header # "date" ->
                 /\ RateLimited(o)
                 /\ UNCHANGED recognized_formula
            [] OTHER ->
                 /\ RetryOrGiveUp(o)
                 /\ UNCHANGED recognized_formula
    /\ UNCHANGED rin

----------------------------------------------------------------------------
(* TranslationPipeline.process with TextTranslator.translate and           *)
(* DocumentBuilder.build. The translated text is the set of <<<FORMULA_N>>>*)
(* markers it contains.                                                    *)

MaxFormulas == 2
MaxPages == 1

DefaultMaxRetries == 3
DefaultBackoffFactor == 2

\* formula_mode of the configuration, and whether lxml and the LaTeX
\* renderer can be imported.
BuilderSetups ==
    {[formula_mode |-> "png", lxml |-> TRUE, renderer |-> TRUE],
     [formula_mode |-> "png", lxml |-> TRUE, renderer |-> FALSE],
     [formula_mode |-> "omml", lxml |-> TRUE, renderer |-> TRUE],
     [formula_mode |-> "omml", lxml |-> FALSE, renderer |-> TRUE]}

Configs ==
    {[use_mathpix |-> u, credentials |-> c, builder |-> b]
        : u \in BOOLEAN, c \in BOOLEAN, b \in BuilderSetups}

NoPipelineResult == [done |-> FALSE]

PIdle ==
    /\ ppc = "off"
    /\ config = [use_mathpix |-> FALSE, credentials |-> FALSE,
                 builder |-> [formula_mode |-> "png", lxml |-> FALSE,
                              renderer |-> FALSE]]
    /\ page_count = 0
    /\ formulas_count = 0
    /\ formula_index = 0
    /\ recognized = <<>>
    /\ translated_markers = {}
    /\ document = {}
    /\ pipeline_result = NoPipelineResult

PInit ==
    /\ ppc = "extract"
    /\ config \in Configs
    /\ page_count \in 0..MaxPages
    /\ formulas_count \in 0..MaxFormulas
    /\ formula_index = 0
    /\ recognized = <<>>
    /\ translated_markers = {}
    /\ document = {}
    /\ pipeline_result = NoPipelineResult

\* The recognizer of line 108 before its first call.
RecognizerOff ==
    /\ rpc = "off"
    /\ available = FALSE
    /\ image_ok = FALSE
    /\ max_retries = DefaultMaxRetries
    /\ backoff_factor = DefaultBackoffFactor
    /\ attempt = 0
    /\ events = <<>>
    /\ recognized_formula = NoFormula

FailedSilently(stage) ==
    [done |-> TRUE, success |-> TRUE, error |-> "none", formulas_count |-> 0,
     recognized_formulas_count |-> 0]

\* Lines 166-175: the except branch of process; error names the stage that
\* raised.
Failed(stage) ==
    [done |-> TRUE, success |-> FALSE, error |-> stage, formulas_count |-> 0,
     recognized_formulas_count |-> 0]

IsAvailableAlways(credentials) == TRUE

\* formula_recognizer.py line 70: bool(self.app_id and self.app_key)
IsAvailable(credentials) == credentials

\* Lines 92-126: extraction, formula extraction, the recognizer and the
\* builder are set up, and the recognition stage is entered or skipped.
PipeExtract ==
    /\ ppc = "extract"
    /\ \/ /\ ppc' = "done"
          /\ pipeline_result' = Failed("extract")
          /\ UNCHANGED available
       \/ /\ available' = (config.use_mathpix /\ IsAvailable(config.credentials))
          /\ ppc' = IF config.use_mathpix /\ IsAvailable(config.credentials)
                    THEN "recognize" ELSE "translate"
          /\ UNCHANGED pipeline_result
    /\ UNCHANGED <<pin, formula_index, recognized, translated_markers, document,
                   rpc, image_ok, max_retries, backoff_factor, attempt, events,
                   recognized_formula>>

\* Lines 198-208: the next formula of _recognize_formulas; with page images
\* recognize_from_file opens the first page and calls recognize.
PipeRecognizeNext ==
    /\ ppc = "recognize"
    /\ rpc = "off"
    /\ formula_index < formulas_count
    /\ IF page_count > 0
       THEN /\ rpc' = "call"
            /\ image_ok' \in BOOLEAN
            /\ UNCHANGED formula_index
       ELSE /\ formula_index' = formula_index + 1
            /\ UNCHANGED <<rpc, image_ok>>
    /\ UNCHANGED <<ppc, pin, recognized, translated_markers, document,
                   pipeline_result, available, max_retries, backoff_factor,
                   attempt, events, recognized_formula>>

\* Lines 209-210: the result of recognize is kept unless it is None.
PipeRecognizeStore ==
    /\ ppc = "recognize"
    /\ rpc = "done"
    /\ recognized' =
           IF recognized_formula.none THEN recognized
           ELSE [i \in DOMAIN recognized \cup {formula_index} |->
                    IF i = formula_index THEN recognized_formula
                    ELSE recognized[i]]
    /\ formula_index' = formula_index + 1
    /\ rpc' = "off"
    /\ attempt' = 0
    /\ events' = <<>>
    /\ recognized_formula' = NoFormula
    /\ UNCHANGED <<ppc, pin, translated_markers, document, pipeline_result,
                   rin>>

\* Lines 124-139 with TextTranslator.translate (text_translator.py 88-118):
\* one model call, whose failure is raised again.
PipeTranslate ==
    /\ \/ ppc = "translate"
       \/ ppc = "recognize" /\ rpc = "off" /\ formula_index >= formulas_count
    /\ \/ /\ ppc' = "done"
          /\ pipeline_result' = Failed("translate")
          /\ UNCHANGED translated_markers
       \/ /\ translated_markers' \in SUBSET (0..(formulas_count - 1))
          /\ ppc' = "build"
          /\ UNCHANGED pipeline_result
    /\ UNCHANGED <<pin, formula_index, recognized, document, rvars>>

\* self.latex_renderer of DocumentBuilder.__init__, lines 73-82
HasRenderer(b) == b.formula_mode = "png" /\ b.renderer

\* self.formula_mode after DocumentBuilder.__init__, lines 71 and 85-87
EffectiveMode(b) ==
    IF b.formula_mode = "omml" /\ ~b.lxml THEN "png" ELSE b.formula_mode

\* What render_latex_to_image meets in a LaTeX text: whether it holds one of
\* the unsupported commands, whether _simplify_complex_latex changes it into
\* a non-empty text, and whether mathtext draws the text it is given.
Forms ==
    {[unsupported |-> FALSE, simplifies |-> FALSE, draws |-> TRUE],
     [unsupported |-> FALSE, simplifies |-> FALSE, draws |-> FALSE],
     [unsupported |-> TRUE, simplifies |-> TRUE, draws |-> TRUE],
     [unsupported |-> TRUE, simplifies |-> TRUE, draws |-> FALSE],
     [unsupported |-> TRUE, simplifies |-> FALSE, draws |-> TRUE]}

NoImage == [image |-> FALSE, simplified |-> FALSE]

RenderWithoutSimplifying(form) ==
    IF form.unsupported \/ ~form.draws THEN NoImage
    ELSE [image |-> TRUE, simplified |-> FALSE]

\* latex_renderer.py, render_latex_to_image, lines 36-101
RenderLatexToImage(form) ==
    IF form.unsupported /\ ~form.simplifies THEN NoImage
    ELSE IF ~form.draws THEN NoImage
    ELSE [image |-> TRUE, simplified |-> form.unsupported]

\* _insert_formula_as_image, lines 265-289; form is the form of the LaTeX
\* text it renders and is kept with the artifact.
InsertFormulaAsImage(b, i, rec, form) ==
    LET img == IF HasRenderer(b) THEN RenderLatexToImage(form) ELSE NoImage
    IN  IF img.image
        THEN [index |-> i, kind |-> "image",
              latex |-> IF i \in DOMAIN rec /\ rec[i].latex
                        THEN "recognized" ELSE "raw",
              simplified |-> img.simplified, form |-> form]
        ELSE [index |-> i, kind |-> "text", latex |-> "raw",
              simplified |-> FALSE, form |-> form]

\* _insert_formula_as_omml, lines 291-322: _mathml_to_omml always raises, so
\* every branch ends in _insert_formula_as_image.
InsertFormulaAsOmml(b, i, rec, form) ==
    InsertFormulaAsImage(b, i, rec, form)

\* The artifact _add_paragraph_with_formulas adds for marker i, lines 240-255
InsertFormula(b, i, rec, form) ==
    IF EffectiveMode(b) = "png"
    THEN InsertFormulaAsImage(b, i, rec, form)
    ELSE InsertFormulaAsOmml(b, i, rec, form)

\* Lines 145-164 with DocumentBuilder.build: every marker of the translated
\* text whose index is in formulas becomes an artifact.
PipeBuild ==
    /\ ppc = "build"
    /\ \/ /\ pipeline_result' = Failed("build")
          /\ UNCHANGED document
       \/ \E form \in [translated_markers -> Forms] :
             /\ document' =
                    {InsertFormula(config.builder, i,
                                   IF DOMAIN recognized = {} THEN <<>>
                                   ELSE recognized, form[i])
                        : i \in translated_markers}
             /\ pipeline_result' =
                    [done |-> TRUE, success |-> TRUE, error |-> "none",
                     formulas_count |-> formulas_count,
                     recognized_formulas_count |-> Cardinality(DOMAIN recognized)]
    /\ ppc' = "done"
    /\ UNCHANGED <<pin, formula_index, recognized, translated_markers, rvars>>

----------------------------------------------------------------------------
(* Token allocation: create_placeholder of _protect_formulas_and_notations  *)
(* and the marker numbering of FormulaExtractor.extract.                    *)

MaxTokens == 12

Payloads == {"E = mc^2", "RP-1/LOX"}

ProtectedOpenEnded(index) ==
    <<"_", "_", "P", "R", "O", "T", "E", "C", "T", "E", "D", "_">>
        \o Decimal(index)

\* translator.py line 892: f"__PROTECTED_{placeholder_counter}__"
Protected(index) ==
    <<"_", "_", "P", "R", "O", "T", "E", "C", "T", "E", "D", "_">>
        \o Decimal(index) \o <<"_", "_">>

Token(sch, index) == IF sch = "formula" THEN Marker(index) ELSE Protected(index)

AIdle ==
    /\ scheme = "off"
    /\ placeholder_counter = 0
    /\ token_map = <<>>

\* translator.py lines 887-888 and formula_extractor.py lines 124-125
AInit ==
    /\ scheme \in {"formula", "protected"}
    /\ placeholder_counter = 0
    /\ token_map = <<>>

\* create_placeholder, translator.py lines 890-895, and lines 161-164 of
\* extract: the dictionary entry of the new token is set and the counter
\* is incremented.
CreatePlaceholder ==
    /\ placeholder_counter < MaxTokens
    /\ \E original \in Payloads :
          LET placeholder == Token(scheme, placeholder_counter)
          IN  token_map' =
                  [t \in DOMAIN token_map \cup {placeholder} |->
                      IF t = placeholder THEN original ELSE token_map[t]]
    /\ placeholder_counter' = placeholder_counter + 1
    /\ UNCHANGED scheme

----------------------------------------------------------------------------
(* translate_file of main.py: concurrent and successive requests served by  *)
(* the one TranslationService and the one DocxGenerator of the module.      *)
(* A coroutine runs without interruption from one await to the next, so an  *)
(* action is the code between two suspensions.                              *)

MaxRequests == 2
MaxScanPages == 2

Requests == 1..MaxRequests

\* An uploaded file: whether any text can be extracted from it, and the
\* number of page images OCR produces for it (0 when the text layer is
\* used, or when OCR yields no images).
Uploads == [readable : BOOLEAN, ocr_pages : 0..MaxScanPages]

\* The page_images dictionary OCR produces for the upload of request r.
PageImages(r) == {<<r, p>> : p \in 1..uploads[r].ocr_pages}

NotBuilt == {<<0, 0>>}

FIdle ==
    /\ uploads = <<>>
    /\ file_pc = <<>>
    /\ page_images = {}
    /\ docx_page_images = <<>>

\* main.py lines 87-88: the services exist before any request; _page_images
\* is not set yet, and getattr(..., {}) of line 243 reads it as {}.
FInit ==
    /\ uploads \in [Requests -> Uploads]
    /\ file_pc = [r \in Requests |-> "received"]
    /\ page_images = {}
    /\ docx_page_images = [r \in Requests |-> NotBuilt]

\* main.py lines 204-223 with extract_text_from_file: _page_images is
\* assigned only when OCR produced images (translator.py lines 1738-1739,
\* 1751-1752); then the request suspends in translate (line 226).
FileExtract(r) ==
    /\ file_pc[r] = "received"
    /\ IF uploads[r].readable
       THEN /\ page_images' = IF PageImages(r) # {} THEN PageImages(r)
                              ELSE page_images
            /\ file_pc' = [file_pc EXCEPT ![r] = "translating"]
       ELSE /\ page_images' = page_images
            /\ file_pc' = [file_pc EXCEPT ![r] = "failed"]
    /\ UNCHANGED <<uploads, docx_page_images>>

\* main.py lines 226-253: translate returns and the DOCX is generated with
\* getattr(translator_service, '_page_images', {}).
FileGenerate(r) ==
    /\ file_pc[r] = "translating"
    /\ docx_page_images' = [docx_page_images EXCEPT ![r] = page_images]
    /\ file_pc' = [file_pc EXCEPT ![r] = "done"]
    /\ UNCHANGED <<uploads, page_images>>

\* main.py lines 234-239: translate raised, the request ends with HTTP 500.
FileTranslateFails(r) ==
    /\ file_pc[r] = "translating"
    /\ file_pc' = [file_pc EXCEPT ![r] = "failed"]
    /\ UNCHANGED <<uploads, page_images, docx_page_images>>

----------------------------------------------------------------------------
(* The hosting process of main_new.py: every request is a coroutine of the  *)
(* one event loop and awaits TranslationPipeline.process. loop_owner is the *)
(* run whose code the loop's thread is executing, 0 when the loop is free.  *)
(* requests.post and time.sleep do not return to the loop; the await of     *)
(* AsyncOpenAI in TextTranslator.translate does.                            *)

MaxRuns == 2

Runs == 1..MaxRuns

HIdle ==
    /\ loop_owner = 0
    /\ runs = <<>>

\* left: the formulas _recognize_formulas still has to send to Mathpix
\* (0 when stage 3 is skipped).
HInit ==
    /\ loop_owner = 0
    /\ runs \in [Runs -> [pc : {"queued"}, left : 0..MaxFormulas,
                          attempt : {0}]]

\* The run goes on after the recognition of one formula: pipeline.py lines
\* 198-210, then the await of line 136.
AfterFormula(r) ==
    IF runs[r].left > 1
    THEN /\ runs' = [runs EXCEPT ![r] = [pc |-> "posting",
                                         left |-> runs[r].left - 1,
                                         attempt |-> 0]]
         /\ loop_owner' = r
    ELSE /\ runs' = [runs EXCEPT ![r] = [pc |-> "awaiting", left |-> 0,
                                         attempt |-> 0]]
         /\ loop_owner' = 0

\* main_new.py line 190 and pipeline.py lines 90-123: the loop starts the
\* coroutine, which runs up to its first requests.post or, with nothing to
\* recognize, up to the await of translate.
HostStart(r) ==
    /\ loop_owner = 0
    /\ runs[r].pc = "queued"
    /\ IF runs[r].left > 0
       THEN /\ runs' = [runs EXCEPT ![r].pc = "posting"]
            /\ loop_owner' = r
       ELSE /\ runs' = [runs EXCEPT ![r].pc = "awaiting"]
            /\ loop_owner' = 0

\* formula_recognizer.py lines 131-170: requests.post returns inside the
\* coroutine; the answer ends the call, or time.sleep follows.
HostPost(r) ==
    /\ runs[r].pc = "posting"
    /\ \E o \in {"ok", "rate_limit", "error"} :
          CASE o = "ok" -> AfterFormula(r)
            [] o = "error" /\ runs[r].attempt >= DefaultMaxRetries - 1 ->
                 AfterFormula(r)
            [] OTHER ->
                 /\ runs' = [runs EXCEPT ![r].pc = "sleeping",
                                         ![r].attempt = runs[r].attempt + 1]
                 /\ UNCHANGED loop_owner

\* time.sleep returns (lines 145, 153, 161, 168): the next iteration of the
\* loop, or return None after the last one.
HostWake(r) ==
    /\ runs[r].pc = "sleeping"
    /\ IF runs[r].attempt < DefaultMaxRetries
       THEN /\ runs' = [runs EXCEPT ![r].pc = "posting"]
            /\ UNCHANGED loop_owner
       ELSE AfterFormula(r)

\* The answer of the translation model arrives for a suspended run.
HostAnswer(r) ==
    /\ runs[r].pc = "awaiting"
    /\ runs' = [runs EXCEPT ![r].pc = "resumable"]
    /\ UNCHANGED loop_owner

\* pipeline.py lines 136-175: the loop resumes the coroutine, which builds
\* the document and returns.
HostResume(r) ==
    /\ loop_owner = 0
    /\ runs[r].pc = "resumable"
    /\ runs' = [runs EXCEPT ![r].pc = "done"]
    /\ UNCHANGED loop_owner

----------------------------------------------------------------------------
(* FormulaRecognizer.recognize_batch: the loop of lines 286-292 around      *)
(* recognize.                                                               *)

MaxImages == 2

\* max_retries of the recognizer whose batch method is called
BatchRetries == {1, 2}

\* time.sleep(0.5), in half seconds
InterRequestDelay == 1

\* What the batch keeps of the events of one call of recognize.
ItemLog(evs, item) ==
    [k \in 1..Len(evs) |->
        IF evs[k].ev = "request"
        THEN [ev |-> "request", item |-> item,
              answer |-> IF evs[k].outcome.kind = "ok"
                         THEN ParseResponse(evs[k].outcome.body)
                         ELSE NoFormula]
        ELSE [ev |-> "sleep", item |-> item]]

BatchDelayNever(i, n) == <<>>

\* Lines 290-291: if i < len(images) - 1: time.sleep(0.5)
BatchDelay(i, n) ==
    IF i < n - 1
    THEN <<[ev |-> "delay", item |-> i, halves |-> InterRequestDelay]>>
    ELSE <<>>

BIdle ==
    /\ bpc = "off"
    /\ images = <<>>
    /\ batch_index = 0
    /\ results = <<>>
    /\ batch_log = <<>>

\* Line 285: results = []. An image is what image.save makes of it: TRUE
\* when it can be encoded.
BInit ==
    /\ bpc = "iterate"
    /\ \E n \in 0..MaxImages : images \in [1..n -> BOOLEAN]
    /\ batch_index = 0
    /\ results = <<>>
    /\ batch_log = <<>>

\* The recognizer of the batch, between two calls of recognize.
BatchRecognizer ==
    /\ rpc = "off"
    /\ available \in BOOLEAN
    /\ image_ok = FALSE
    /\ max_retries \in BatchRetries
    /\ backoff_factor \in BackoffFactors
    /\ attempt = 0
    /\ events = <<>>
    /\ recognized_formula = NoFormula

\* Lines 286-288: the next image is handed to recognize.
BatchNext ==
    /\ bpc = "iterate"
    /\ batch_index < Len(images)
    /\ bpc' = "recognizing"
    /\ rpc' = "call"
    /\ image_ok' = images[batch_index + 1]
    /\ UNCHANGED <<available, max_retries, backoff_factor, attempt, events,
                   recognized_formula>>
    /\ UNCHANGED <<images, batch_index, results, batch_log>>

\* Lines 288-291: recognize has returned; its result is appended and the
\* delay follows unless this was the last image.
BatchStore ==
    /\ bpc = "recognizing"
    /\ rpc = "done"
    /\ results' = Append(results, recognized_formula)
    /\ batch_log' = batch_log \o ItemLog(events, batch_index)
                        \o BatchDelay(batch_index, Len(images))
    /\ batch_index' = batch_index + 1
    /\ bpc' = "iterate"
    /\ rpc' = "off"
    /\ UNCHANGED <<rin, attempt, events, recognized_formula>>
    /\ UNCHANGED images

\* Line 292: return results
BatchReturn ==
    /\ bpc = "iterate"
    /\ batch_index = Len(images)
    /\ bpc' = "returned"
    /\ UNCHANGED <<images, batch_index, results, batch_log>>
    /\ UNCHANGED rvars

----------------------------------------------------------------------------
(* TranslationPipeline._recognize_formulas (pipeline.py 177-212) over a     *)
(* document of several pages. formula_pages[i + 1] is the page on which    *)
(* formula i occurs; the page images are those of PDFExtractor, one per    *)
(* page in page order, or none.                                            *)

MaxDocPages == 2
MaxDocFormulas == 3

RECURSIVE SeqsUpTo(_, _)
SeqsUpTo(S, n) ==
    IF n = 0 THEN {<<>>}
    ELSE LET R == SeqsUpTo(S, n - 1)
         IN  R \cup {Append(r, e) : r \in R, e \in S}

GIdle ==
    /\ gpc = "off"
    /\ doc_pages = 0
    /\ has_page_images = FALSE
    /\ formula_pages = <<>>
    /\ rec_index = 0
    /\ recognized_from = <<>>

\* Line 194: recognized = {}
GInit ==
    /\ gpc = "iterate"
    /\ doc_pages \in 1..MaxDocPages
    /\ has_page_images \in BOOLEAN
    /\ formula_pages \in SeqsUpTo(1..doc_pages, MaxDocFormulas)
    /\ rec_index = 0
    /\ recognized_from = <<>>

\* pdf_extractor.py 114-125: page_images[page_num + 1] is set page by page,
\* so the values of the dictionary are in page order.
PageImageValues == IF has_page_images THEN Run(1, doc_pages) ELSE <<>>

\* Line 205: list(page_images.values())[0]
FirstPage == PageImageValues[1]

\* Lines 198-210: one formula of the loop. recognize_from_file answers with
\* what the image it is given shows, or with None.
RecognizeFormula ==
    /\ gpc = "iterate"
    /\ rec_index < Len(formula_pages)
    /\ IF PageImageValues # <<>>
       THEN \E answered \in BOOLEAN :
               recognized_from' =
                   IF answered
                   THEN [i \in DOMAIN recognized_from \cup {rec_index} |->
                            IF i = rec_index THEN FirstPage
                            ELSE recognized_from[i]]
                   ELSE recognized_from
       ELSE UNCHANGED recognized_from
    /\ rec_index' = rec_index + 1
    /\ UNCHANGED <<gpc, doc_pages, has_page_images, formula_pages>>

\* Line 212: return recognized
RecognizeReturn ==
    /\ gpc = "iterate"
    /\ rec_index = Len(formula_pages)
    /\ gpc' = "returned"
    /\ UNCHANGED <<doc_pages, has_page_images, formula_pages, rec_index,
                   recognized_from>>

----------------------------------------------------------------------------
(* Masking followed by unmasking of the masked text as it is, in either    *)
(* token scheme: FormulaExtractor.extract and restore, and                 *)
(* TranslationService._protect_formulas_and_notations and                  *)
(* _restore_formulas_and_notations (translator.py).                        *)

Upper == {"A", "B", "C", "D", "E", "F", "G", "H", "I", "J", "K", "L", "M",
          "N", "O", "P", "Q", "R", "S", "T", "U", "V", "W", "X", "Y", "Z"}
Lower == Latin \ Upper
\* [A-Za-z0-9]
AsciiAlnum == Upper \cup Lower \cup Digit

\* Stand-ins for the Unicode subscript digits of unicode_subscript_map.
SubscriptDigits ==
    <<"sub0", "sub1", "sub2", "sub3", "sub4", "sub5", "sub6", "sub7", "sub8",
      "sub9">>

DigitValue(d) == CHOOSE k \in 0..9 : Decimal(k) = <<d>>

\* pat in t
Contains(t, pat) ==
    \E k \in 0..(Len(t) - Len(pat)) : Slice(t, k, k + Len(pat)) = pat

\* An entry of the token map: the token, the substring of the input it
\* replaced, and the payload stored for it.
Item(sch, index, source, payload) ==
    [index |-> index, token |-> Token(sch, index), source |-> source,
     payload |-> payload]

\* Lines 912 and 916: \\\[[^\]]*?\\\] and \\\([^)]*?\\\), DOTALL. The body
\* holds no closing bracket, so the match ends at the first one.
MatchProtectedLatex(t, pos, o, c) ==
    IF At(t, pos) = BS /\ At(t, pos + 1) = o
    THEN LET S == {k \in (pos + 2)..(Len(t) - 1) : t[k + 1] = c}
         IN  IF S = {} THEN NoMatch
             ELSE IF MinOf(S) >= pos + 3 /\ At(t, MinOf(S) - 1) = BS
                  THEN MinOf(S) + 1
                  ELSE NoMatch
    ELSE NoMatch

\* [A-Z][a-z]?\d+ at offset i
ChemGroupEnd(t, i) ==
    IF At(t, i) \in Upper
    THEN LET j == IF At(t, i + 1) \in Lower THEN i + 2 ELSE i + 1
             e == RunEnd(t, j, Digit)
         IN  IF e > j THEN e ELSE NoMatch
    ELSE NoMatch

\* (?:[A-Z][a-z]?\d+)* from offset i, greedy
RECURSIVE ChemGroupsEnd(_, _)
ChemGroupsEnd(t, i) ==
    IF ChemGroupEnd(t, i) = NoMatch THEN i
    ELSE ChemGroupsEnd(t, ChemGroupEnd(t, i))

\* (?=\s|$|/|\(|:|\s*\(|,|\.|\)|;|!|\?|...) of simple_chemical_pattern
ChemFollow == Space \cup {"", "/", "(", ":", ",", ".", ")", ";", "!", "?"}

\* Line 1311, simple_chemical_pattern. A shorter match than the greedy one
\* is followed by a digit or a capital letter, so only the greedy one can
\* meet the lookahead.
MatchSimpleChemical(t, pos) ==
    IF At(t, pos - 1) \notin AsciiAlnum /\ ChemGroupEnd(t, pos) # NoMatch
    THEN LET e == ChemGroupsEnd(t, pos)
         IN  IF At(t, e) \in ChemFollow THEN e ELSE NoMatch
    ELSE NoMatch

\* re.sub(r'([A-Z][a-z]?)(\d+)', replace_digit, formula), lines 1336-1341:
\* every digit that follows an element becomes a subscript.
RECURSIVE ToSubscripts(_, _)
SubscriptsAt(t, pos, d, e) ==
    Slice(t, pos, d)
        \o [k \in 1..(e - d) |-> SubscriptDigits[DigitValue(At(t, d + k - 1)) + 1]]
        \o ToSubscripts(t, e)

SubscriptsIn(t, pos, S) ==
    IF S = {} THEN Slice(t, pos, Len(t))
    ELSE SubscriptsAt(t, pos, RunEnd(t, MinOf(S) + 1, Lower),
                      ChemGroupEnd(t, MinOf(S)))

ToSubscripts(t, pos) ==
    SubscriptsIn(t, pos, {k \in pos..(Len(t) - 1) : ChemGroupEnd(t, k) # NoMatch})

Abbreviations ==
    {<<"R", "P", "1">>, <<"L", "O", "X">>, <<"M", "M", "H">>,
     <<"I", "M", "U">>, <<"R", "C", "S">>, <<"G", "T", "O">>,
     <<"T", "L", "I">>, <<"T", "M", "I">>, <<"L", "E", "O">>,
     <<"G", "S", "O">>}

MaxChemicalLen == 10

\* The passes of _protect_formulas_and_notations that can match a text
\* built from UnmaskPieces: 1 display LaTeX, 2 inline LaTeX, 3 simple
\* chemical formulas.
ProtectPasses == 3

ProtectMatch(pass, t, pos) ==
    CASE pass = 1 -> MatchProtectedLatex(t, pos, "[", "]")
      [] pass = 2 -> MatchProtectedLatex(t, pos, "(", ")")
      [] pass = 3 -> MatchSimpleChemical(t, pos)

\* The replacement function of a pass applied to the match m: the payload
\* it stores, or NoPayload when it returns the match as it is.
\* protect_latex (line 897) stores the match; protect_simple_chemical
\* (lines 1312-1350) stores the formula with subscript digits.
NoPayload == <<"">>

ProtectPayload(pass, m) ==
    IF pass = 3
    THEN IF m \in Abbreviations \/ Len(m) > MaxChemicalLen THEN NoPayload
         ELSE ToSubscripts(m, 0)
    ELSE m

\* re.sub(pattern, replacement, t) from offset pos on, at the leftmost
\* match after another: out is the text built so far, its the token map
\* so far.
RECURSIVE ProtectSub(_, _, _, _, _)
ProtectPut(pass, t, e, skipped, its, m, payload) ==
    IF payload = NoPayload
    THEN ProtectSub(pass, t, e, skipped \o m, its)
    ELSE ProtectSub(pass, t, e, skipped \o Protected(Len(its)),
                    Append(its, Item("protected", Len(its), m, payload)))

ProtectAt(pass, t, e, skipped, its, m) ==
    ProtectPut(pass, t, e, skipped, its, m, ProtectPayload(pass, m))

ProtectIn(pass, t, pos, out, its, s, e) ==
    ProtectAt(pass, t, e, out \o Slice(t, pos, s), its, Slice(t, s, e))

ProtectSub(pass, t, pos, out, its) ==
    LET S == {k \in pos..(Len(t) - 1) : ProtectMatch(pass, t, k) # NoMatch}
    IN  IF S = {} THEN <<out \o Slice(t, pos, Len(t)), its>>
        ELSE ProtectIn(pass, t, pos, out, its, MinOf(S),
                       ProtectMatch(pass, t, MinOf(S)))

RECURSIVE ProtectFrom(_, _, _)
ProtectFrom(pass, t, its) ==
    IF pass > ProtectPasses THEN <<t, its>>
    ELSE LET r == ProtectSub(pass, t, 0, <<>>, its)
         IN  ProtectFrom(pass + 1, r[1], r[2])

\* _protect_formulas_and_notations(t) = <<text, protected_items>>, the
\* items in the order of insertion
ProtectFormulas(t) == ProtectFrom(1, t, <<>>)

\* extract(t) with its formulas as a token map
ExtractItems(t) ==
    LET r == ExtractFormulas(t)
    IN  <<r[1], [i \in 1..Len(r[2]) |->
                    Item("formula", i - 1, r[2][i], r[2][i])]>>

\* str.split(sep) for a one-character sep
RECURSIVE SplitOn(_, _)
SplitOn(t, sep) ==
    LET S == {k \in 1..Len(t) : t[k] = sep}
    IN  IF S = {} THEN <<t>>
        ELSE <<SubSeq(t, 1, MinOf(S) - 1)>>
                 \o SplitOn(SubSeq(t, MinOf(S) + 1, Len(t)), sep)

\* str.isdigit()
IsDigitString(s) == s # <<>> /\ \A k \in 1..Len(s) : s[k] \in Digit

\* int(s) for a string of digits
RECURSIVE IntOf(_)
IntOf(s) ==
    IF s = <<>> THEN 0
    ELSE 10 * IntOf(SubSeq(s, 1, Len(s) - 1)) + DigitValue(s[Len(s)])

\* Line 1628, the sort key of a placeholder:
\* int(x[0].split('_')[1]) if len(x[0].split('_')) > 1
\*     and x[0].split('_')[1].isdigit() else 0
SortKey(token) ==
    LET parts == SplitOn(token, "_")
    IN  IF Len(parts) > 1 /\ IsDigitString(parts[2]) THEN IntOf(parts[2])
        ELSE 0

\* sorted(..., reverse=True) is stable: entries of equal key keep their
\* order.
RECURSIVE SortedReverse(_)
SortedReverse(its) ==
    IF its = <<>> THEN <<>>
    ELSE LET x == its[Len(its)]
             s == SortedReverse(SubSeq(its, 1, Len(its) - 1))
             n == Cardinality({k \in 1..Len(s) :
                                  SortKey(s[k].token) >= SortKey(x.token)})
         IN  SubSeq(s, 1, n) \o <<x>> \o SubSeq(s, n + 1, Len(s))

\* [A-Za-z\s/\(\):,\\.;!?...] or the end, the lookahead of flexible_pattern
FlexibleFollow ==
    Upper \cup Lower \cup Space
        \cup {"", "/", "(", ")", ":", ",", BS, ".", ";", "!", "?"}

\* Line 839, flexible_pattern ([A-Z][a-z]?)\s*(\d+)(?=...): <<end of the
\* element, start of the digits, end of the match>>, or <<>>.
MatchFlexible(t, pos) ==
    IF At(t, pos) \in Upper
    THEN LET j == IF At(t, pos + 1) \in Lower THEN pos + 2 ELSE pos + 1
             d == SkipSpace(t, j)
             e == RunEnd(t, d, Digit)
         IN  IF e > d /\ At(t, e) \in FlexibleFollow THEN <<j, d, e>>
             ELSE IF j = pos + 2
                  THEN LET d1 == SkipSpace(t, pos + 1)
                           e1 == RunEnd(t, d1, Digit)
                       IN  IF e1 > d1 /\ At(t, e1) \in FlexibleFollow
                           THEN <<pos + 1, d1, e1>>
                           ELSE <<>>
                  ELSE <<>>
    ELSE <<>>

\* re.sub(flexible_pattern, normalize_flexible, line), lines 840-858
RECURSIVE FlexibleSub(_, _)
FlexibleAt(line, pos, s, m) ==
    Slice(line, pos, s)
        \o (IF Slice(line, s, m[1]) \o Slice(line, m[2], m[3])
                  \in {<<"R", "P", "1">>, <<"L", "O", "X">>, <<"M", "M", "H">>}
            THEN Slice(line, s, m[3])
            ELSE Slice(line, s, m[1])
                     \o [k \in 1..(m[3] - m[2]) |->
                            SubscriptDigits[DigitValue(At(line, m[2] + k - 1)) + 1]])
        \o FlexibleSub(line, m[3])

FlexibleIn(line, pos, S) ==
    IF S = {} THEN Slice(line, pos, Len(line))
    ELSE FlexibleAt(line, pos, MinOf(S), MatchFlexible(line, MinOf(S)))

FlexibleSub(line, pos) ==
    FlexibleIn(line, pos, {k \in pos..(Len(line) - 1) : MatchFlexible(line, k) # <<>>})

ProtectedPrefix ==
    <<"_", "_", "P", "R", "O", "T", "E", "C", "T", "E", "D", "_">>

\* Lines 861-870: the flexible pattern is applied line by line, and a line
\* that holds '__PROTECTED_' is left as it is.
RECURSIVE FlexibleLines(_, _)
FlexibleLines(t, from) ==
    LET e == LineEnd(t, from)
        line == Slice(t, from, e)
        done == IF Contains(line, ProtectedPrefix) THEN line
                ELSE FlexibleSub(line, 0)
    IN  IF e >= Len(t) THEN done
        ELSE done \o <<NL>> \o FlexibleLines(t, e + 1)

\* _normalize_chemical_formulas(t), lines 654-878. The passes before the
\* flexible one (fuel combinations, known formulas, standalone formulas)
\* need a formula of ASCII digits followed by a separator, which the
\* protection has replaced by a payload of subscript digits.
NormalizeChemicalFormulas(t) == FlexibleLines(t, 0)

MaxUnmaskPieces == 3

\* The fragments the input texts are built from, for each token scheme.
UnmaskPieces(sch) ==
    IF sch = "formula"
    THEN { <<"x", "_", "1">>, <<" ">>,
           <<BS, "(", "x", "=", "1", BS, ")">>,
           <<BS, "(">> \o Marker(0) \o <<BS, ")">> }
    ELSE { <<"O", "2">>, <<" ">>, <<"i", "s">>, <<".">>,
           <<BS, "(", "x", BS, ")">>,
           <<BS, "(">> \o Protected(0) \o <<BS, ")">> }

RECURSIVE UnmaskTexts(_, _)
UnmaskTexts(sch, n) ==
    IF n = 0 THEN {<<>>}
    ELSE LET S == UnmaskTexts(sch, n - 1)
         IN  S \cup {s \o p : s \in S, p \in UnmaskPieces(sch)}

UIdle ==
    /\ upc = "off"
    /\ unmask_scheme = "off"
    /\ input_text = <<>>
    /\ masked = <<>>
    /\ unmask_items = <<>>
    /\ sorted_items = <<>>
    /\ unmasked = <<>>
    /\ restore_order = <<>>

UInit ==
    /\ upc = "input"
    /\ unmask_scheme \in {"formula", "protected"}
    /\ input_text \in UnmaskTexts(unmask_scheme, MaxUnmaskPieces)
    /\ masked = <<>>
    /\ unmask_items = <<>>
    /\ sorted_items = <<>>
    /\ unmasked = <<>>
    /\ restore_order = <<>>

\* extract(original) or _protect_formulas_and_notations(original)
Mask ==
    /\ upc = "input"
    /\ LET r == IF unmask_scheme = "formula" THEN ExtractItems(input_text)
                ELSE ProtectFormulas(input_text)
       IN  /\ masked' = r[1]
           /\ unmask_items' = r[2]
    /\ upc' = "masked"
    /\ UNCHANGED <<unmask_scheme, input_text, sorted_items, unmasked,
                   restore_order>>

\* The start of restore (formula_extractor.py 219-221: the loop over
\* formulas.items()) or of _restore_formulas_and_notations (translator.py
\* 1623-1632: the early return for an empty map, then sorted_items).
UnmaskBegin ==
    /\ upc = "masked"
    /\ unmasked' = masked
    /\ IF unmask_scheme = "protected" /\ unmask_items = <<>>
       THEN /\ upc' = "done"
            /\ UNCHANGED sorted_items
       ELSE /\ upc' = "restoring"
            /\ sorted_items' = IF unmask_scheme = "formula" THEN unmask_items
                               ELSE SortedReverse(unmask_items)
    /\ UNCHANGED <<unmask_scheme, input_text, masked, unmask_items,
                   restore_order>>

\* One entry of the loop: formula_extractor.py 221-223, translator.py
\* 1636-1641. restore_order lists the indexes of the tokens substituted.
UnmaskNext ==
    /\ upc = "restoring"
    /\ sorted_items # <<>>
    /\ LET it == Head(sorted_items)
       IN  IF Contains(unmasked, it.token)
           THEN /\ unmasked' = Replace(unmasked, it.token, it.payload)
                /\ restore_order' = Append(restore_order, it.index)
           ELSE UNCHANGED <<unmasked, restore_order>>
    /\ sorted_items' = Tail(sorted_items)
    /\ UNCHANGED <<upc, unmask_scheme, input_text, masked, unmask_items>>

\* The end of the loop: restore returns the text (line 227);
\* _restore_formulas_and_notations normalises it first (lines 1658-1660).
UnmaskEnd ==
    /\ upc = "restoring"
    /\ sorted_items = <<>>
    /\ unmasked' = IF unmask_scheme = "protected"
                   THEN NormalizeChemicalFormulas(unmasked)
                   ELSE unmasked
    /\ upc' = "done"
    /\ UNCHANGED <<unmask_scheme, input_text, masked, unmask_items, sorted_items,
                   restore_order>>

\* The idle state of what the specifications below leave alone.
LIdle == GIdle /\ UIdle

ExtraIdle == AIdle /\ FIdle /\ HIdle /\ BIdle /\ LIdle

----------------------------------------------------------------------------
(* Specifications.                                                         *)

InitExtract == XInit /\ TIdle /\ RIdle /\ PIdle /\ ExtraIdle

NextExtract ==
    \/ Extract /\ UNCHANGED <<tvars, rvars, pvars, evars>>
    \/ Restore /\ UNCHANGED <<tvars, rvars, pvars, evars>>

\* The extractor alone: mask a text, then restore it.
SpecExtract == InitExtract /\ [][NextExtract]_vars

InitFilter == FilterInit /\ TIdle /\ RIdle /\ PIdle /\ ExtraIdle

NextFilter ==
    \/ FilterMatch /\ UNCHANGED <<tvars, rvars, pvars, evars>>

\* The filter step of extract on one explicitly delimited formula.
SpecFilter == InitFilter /\ [][NextFilter]_vars

InitTranslate == TInit /\ XIdle /\ RIdle /\ PIdle /\ ExtraIdle

NextTranslate ==
    \/ TranslateStart /\ UNCHANGED <<xvars, rvars, pvars, evars>>
    \/ FirstResponse /\ UNCHANGED <<xvars, rvars, pvars, evars>>
    \/ StrictResponse /\ UNCHANGED <<xvars, rvars, pvars, evars>>
    \/ ShrunkResponse /\ UNCHANGED <<xvars, rvars, pvars, evars>>
    \/ ChunkAppend /\ UNCHANGED <<xvars, rvars, pvars, evars>>
    \/ ChunkSubmit /\ UNCHANGED <<xvars, rvars, pvars, evars>>
    \/ ChunkResponse /\ UNCHANGED <<xvars, rvars, pvars, evars>>

\* One call of TranslationService.translate.
SpecTranslate == InitTranslate /\ [][NextTranslate]_vars

InitRecognize == RInit /\ XIdle /\ TIdle /\ PIdle /\ ExtraIdle

NextRecognize ==
    \/ RecognizeCall /\ UNCHANGED <<xvars, tvars, pvars, evars>>
    \/ RecognizeAttempt /\ UNCHANGED <<xvars, tvars, pvars, evars>>

\* One call of FormulaRecognizer.recognize.
SpecRecognize == InitRecognize /\ [][NextRecognize]_vars

InitPipeline == PInit /\ RecognizerOff /\ XIdle /\ TIdle /\ ExtraIdle

NextPipeline ==
    \/ PipeExtract /\ UNCHANGED <<xvars, tvars, evars>>
    \/ PipeRecognizeNext /\ UNCHANGED <<xvars, tvars, evars>>
    \/ RecognizeCall /\ UNCHANGED <<xvars, tvars, pvars, evars>>
    \/ RecognizeAttempt /\ UNCHANGED <<xvars, tvars, pvars, evars>>
    \/ PipeRecognizeStore /\ UNCHANGED <<xvars, tvars, evars>>
    \/ PipeTranslate /\ UNCHANGED <<xvars, tvars, evars>>
    \/ PipeBuild /\ UNCHANGED <<xvars, tvars, evars>>

\* One run of TranslationPipeline.process.
SpecPipeline == InitPipeline /\ [][NextPipeline]_vars

InitRecognition ==
    \/ RInit /\ XIdle /\ TIdle /\ PIdle /\ ExtraIdle
    \/ PInit /\ RecognizerOff /\ XIdle /\ TIdle /\ ExtraIdle

\* A direct call of FormulaRecognizer.recognize, or a run of the pipeline
\* that calls it.
SpecRecognition == InitRecognition /\ [][NextPipeline]_vars

----------------------------------------------------------------------------

InitAllocate ==
    AInit /\ XIdle /\ TIdle /\ RIdle /\ PIdle /\ FIdle /\ HIdle /\ BIdle
        /\ LIdle

NextAllocate ==
    \/ CreatePlaceholder
           /\ UNCHANGED <<xvars, tvars, rvars, pvars, fvars, hvars, bvars,
                          lvars>>

\* One masking run: the tokens it allocates, one after another.
SpecAllocate == InitAllocate /\ [][NextAllocate]_vars

----------------------------------------------------------------------------

InitServe ==
    FInit /\ XIdle /\ TIdle /\ RIdle /\ PIdle /\ AIdle /\ HIdle /\ BIdle
        /\ LIdle

NextServe ==
    \/ \E r \in Requests : FileExtract(r)
           /\ UNCHANGED <<xvars, tvars, rvars, pvars, avars, hvars, bvars,
                          lvars>>
    \/ \E r \in Requests : FileGenerate(r)
           /\ UNCHANGED <<xvars, tvars, rvars, pvars, avars, hvars, bvars,
                          lvars>>
    \/ \E r \in Requests : FileTranslateFails(r)
           /\ UNCHANGED <<xvars, tvars, rvars, pvars, avars, hvars, bvars,
                          lvars>>

\* The translate-file requests of one process of main.py.
SpecServe == InitServe /\ [][NextServe]_vars

InitHost ==
    HInit /\ XIdle /\ TIdle /\ RIdle /\ PIdle /\ AIdle /\ FIdle /\ BIdle
        /\ LIdle

HostOthers == <<xvars, tvars, rvars, pvars, avars, fvars, bvars, lvars>>

NextHost ==
    \/ \E r \in Runs : HostStart(r) /\ UNCHANGED HostOthers
    \/ \E r \in Runs : HostPost(r) /\ UNCHANGED HostOthers
    \/ \E r \in Runs : HostWake(r) /\ UNCHANGED HostOthers
    \/ \E r \in Runs : HostAnswer(r) /\ UNCHANGED HostOthers
    \/ \E r \in Runs : HostResume(r) /\ UNCHANGED HostOthers

\* The pipeline runs of one process of main_new.py.
SpecHost == InitHost /\ [][NextHost]_vars

InitBatch ==
    BInit /\ BatchRecognizer /\ XIdle /\ TIdle /\ PIdle /\ AIdle /\ FIdle
        /\ HIdle /\ LIdle

BatchOthers == <<xvars, tvars, pvars, avars, fvars, hvars, lvars>>

NextBatch ==
    \/ BatchNext /\ UNCHANGED BatchOthers
    \/ RecognizeCall /\ UNCHANGED <<BatchOthers, bvars>>
    \/ RecognizeAttempt /\ UNCHANGED <<BatchOthers, bvars>>
    \/ BatchStore /\ UNCHANGED BatchOthers
    \/ BatchReturn /\ UNCHANGED BatchOthers

\* One call of FormulaRecognizer.recognize_batch.
SpecBatch == InitBatch /\ [][NextBatch]_vars

InitPages == GInit /\ UIdle /\ XIdle /\ TIdle /\ RIdle /\ PIdle /\ AIdle
                 /\ FIdle /\ HIdle /\ BIdle

PagesOthers ==
    <<xvars, tvars, rvars, pvars, avars, fvars, hvars, bvars, uvars>>

NextPages ==
    \/ RecognizeFormula /\ UNCHANGED PagesOthers
    \/ RecognizeReturn /\ UNCHANGED PagesOthers

\* One call of TranslationPipeline._recognize_formulas.
SpecPages == InitPages /\ [][NextPages]_vars

InitUnmask == UInit /\ GIdle /\ XIdle /\ TIdle /\ RIdle /\ PIdle /\ AIdle
                  /\ FIdle /\ HIdle /\ BIdle

UnmaskOthers ==
    <<xvars, tvars, rvars, pvars, avars, fvars, hvars, bvars, gvars>>

NextUnmask ==
    \/ Mask /\ UNCHANGED UnmaskOthers
    \/ UnmaskBegin /\ UNCHANGED UnmaskOthers
    \/ UnmaskNext /\ UNCHANGED UnmaskOthers
    \/ UnmaskEnd /\ UNCHANGED UnmaskOthers

\* A text is masked and the masked text is unmasked.
SpecUnmask == InitUnmask /\ [][NextUnmask]_vars

----------------------------------------------------------------------------
(* Properties.                                                              *)

\* translate has returned or raised
Terminal == tpc \in {"returned", "raised"}

\* The call took the single-shot path of lines 247-263.
SingleShot == requests # <<>> /\ requests[1].kind = "full"

\* The call took the chunk loop of lines 211-245.
Chunked == requests # <<>> /\ requests[1].kind = "chunk"

\* The first single-shot call returned for a text with placeholders.
FirstReturned ==
    /\ SingleShot
    /\ Items # {}
    /\ responses # <<>>
    /\ responses[1].status = "ok"

Returned(present, idx) ==
    /\ tpc = "returned"
    /\ translated = [status |-> "returned", present |-> present, response |-> idx]

\* C1: restore(extract(T)) = T for every text T.
C1_RoundTrip == xpc = "restored" => restored = text

C3_LostReported ==
    lost_report.ran => lost_report.lost \subseteq lost_report.reported

\* The requests.post calls of one recognize call, in order
Posts == SelectSeq(events, LAMBDA e : e.ev = "request")

Is200(o) == o.kind \in {"ok", "malformed"}

\* C4: recognize ends after at most max_retries requests, with the parsed
\* result of the first 200 response, or None when no attempt had one.
C4_FirstSuccess ==
    rpc = "done" /\ available /\ image_ok =>
        /\ Len(Posts) <= max_retries
        /\ IF \E k \in 1..Len(Posts) : Is200(Posts[k].outcome)
           THEN LET k == CHOOSE i \in 1..Len(Posts) :
                            /\ Is200(Posts[i].outcome)
                            /\ \A j \in 1..(i - 1) : ~Is200(Posts[j].outcome)
                IN  /\ k = Len(Posts)
                    /\ Posts[k].outcome.kind = "ok" =>
                          recognized_formula = ParseResponse(Posts[k].outcome.body)
           ELSE recognized_formula.none

\* C5: without credentials the recognizer is unavailable, recognize posts
\* nothing and returns None, and process skips the recognition stage; the
\* recognition stage never ends process, a None result is not stored, and a
\* formula without a stored result is built from its raw text.
C5_RecognitionOptional ==
    /\ ~available =>
          /\ events = <<>>
          /\ rpc = "done" => recognized_formula.none
    /\ ppc # "off" /\ ~config.credentials =>
          /\ ~available
          /\ rpc = "off"
          /\ ppc # "recognize"
          /\ DOMAIN recognized = {}
    /\ \A i \in DOMAIN recognized : ~recognized[i].none
    /\ ppc = "recognize" => ~pipeline_result.done
    /\ pipeline_result.done =>
          IF pipeline_result.success
          THEN \A a \in document :
                  a.index \notin DOMAIN recognized => a.latex = "raw"
          ELSE pipeline_result.error \in {"extract", "translate", "build"}

\* C5 witness: process succeeded without credentials on a text with a
\* formula, which the document holds as raw text.
C5_Witness ==
    /\ pipeline_result.done
    /\ pipeline_result.success
    /\ config.use_mathpix
    /\ ~config.credentials
    /\ \E a \in document : a.latex = "raw"

\* C6: a chunk answer that holds none of the chunk's placeholders is followed
\* by a stricter request for the same chunk.
C6_ChunkValidated ==
    tpc = "returned" =>
        \A k \in 1..Len(responses) :
            /\ requests[k].kind = "chunk"
            /\ responses[k].status = "ok"
            /\ NeedsStrictRetry(PlaceholdersOf(requests[k].chunk),
                                responses[k].present)
            => /\ k < Len(requests)
               /\ requests[k + 1].temperature < requests[k].temperature
               /\ requests[k + 1].chunk = requests[k].chunk

Last(c) == c[Len(c)]

\* The paragraphs of chunk c are a non-empty contiguous run.
IsRun(c) == c # <<>> /\ c = Run(c[1], Last(c))

\* The requests in which placeholder p was submitted
SubmittedIn(p) ==
    {k \in 1..Len(requests) : p \in PlaceholdersOf(requests[k].chunk)}

ChunksPartition ==
    /\ \A k \in 1..Len(requests) :
          requests[k].kind = "chunk" =>
              /\ IsRun(requests[k].chunk)
              /\ requests[k].chunk[1]
                    = IF k = 1 THEN 1 ELSE Last(requests[k - 1].chunk) + 1
              /\ Last(requests[k].chunk) <= Len(paragraphs)
    /\ Chunked =>
          /\ Len(translated_parts) <= Len(requests)
          /\ \A k \in 1..Len(translated_parts) :
                translated_parts[k].chunk = requests[k].chunk
    /\ Chunked /\ tpc = "returned" =>
          /\ Last(requests[Len(requests)].chunk) = Len(paragraphs)
          /\ Len(translated_parts) = Len(requests)
          /\ \A p \in Items : Cardinality(SubmittedIn(p)) = 1
          /\ UNION {PlaceholdersOf(requests[k].chunk) : k \in 1..Len(requests)}
                = PlaceholdersOf(Whole)

\* C7: the chunks are contiguous runs of whole paragraphs that follow one
\* another from the first paragraph to the last, the translated parts keep
\* that order, every placeholder is submitted in exactly one chunk, together
\* the chunks carry the placeholders of the whole text, and protected_items
\* never changes.
C7_ChunksPartition ==
    []ChunksPartition /\ [][protected_items' = protected_items]_vars

\* C7 witness: a chunked call returned after two chunks that each held a
\* placeholder.
C7_Witness ==
    /\ Chunked
    /\ tpc = "returned"
    /\ \E j, k \in 1..Len(requests) :
          /\ j < k
          /\ PlaceholdersOf(requests[j].chunk) # {}
          /\ PlaceholdersOf(requests[k].chunk) # {}

\* C8: for every chunk the estimate of the prompt plus the estimate of the
\* chunk's text is at most max_allowed_tokens.
C8_ChunkWithinBudget ==
    \A k \in 1..Len(requests) :
        requests[k].kind = "chunk" =>
            EstimateTokens(requests[k].prompt_len)
                + EstimateTokens(JoinedLen(ParasOf(requests[k].chunk)))
                <= max_allowed_tokens

\* C9: every rate-limit answer is followed by exactly one request with the
\* shrunk prompt, and a rate-limit answer to that request raises.
C9_ShrinkAndRetryOnce ==
    Terminal =>
        \A k \in 1..Len(responses) :
            responses[k].status = "rate_limit" =>
                IF requests[k].kind = "shrunk"
                THEN k = Len(requests) /\ translated.status = "raised"
                ELSE /\ k < Len(requests)
                     /\ requests[k + 1].kind = "shrunk"
                     /\ \A j \in (k + 2)..Len(requests) :
                           requests[j].kind # "shrunk"

\* C10: translate never returns a text in which a chunk is its own source
\* text because the chunk's model call failed.
C10_NoUntranslatedChunk ==
    tpc = "returned" =>
        \A k \in 1..Len(translated_parts) : ~translated_parts[k].failed

Stages == {"extract", "translate", "build"}

\* C11: process always ends with a result: after a stage raised, success is
\* false, error names the failure and both counts are zero; after a complete
\* run success is true, error is unset and recognized_formulas_count is at
\* most formulas_count.
C11_StructuredResult ==
    /\ ppc = "done" <=> pipeline_result.done
    /\ pipeline_result.done =>
          IF pipeline_result.success
          THEN /\ pipeline_result.error = "none"
               /\ pipeline_result.formulas_count = formulas_count
               /\ pipeline_result.recognized_formulas_count
                     <= pipeline_result.formulas_count
          ELSE /\ pipeline_result.error \in Stages
               /\ pipeline_result.formulas_count = 0
               /\ pipeline_result.recognized_formulas_count = 0

\* C11 witness: the translation raised after a formula had been recognized.
C11_Witness ==
    /\ pipeline_result.done
    /\ ~pipeline_result.success
    /\ pipeline_result.error = "translate"
    /\ DOMAIN recognized # {}

\* The builder that the same environment gives when PNG mode is requested
PngSetup(b) == [b EXCEPT !.formula_mode = "png"]

\* C12: a document built in OMML mode holds, for every formula, the artifact
\* that PNG mode embeds for it.
C12_OmmlFallsBackToBitmap ==
    /\ pipeline_result.done
    /\ pipeline_result.success
    /\ config.builder.formula_mode = "omml"
    => \A a \in document :
          a = InsertFormulaAsImage(PngSetup(config.builder), a.index,
                                   recognized, a.form)

C14_GraphNotSymbolic ==
    pipeline_result.done /\ pipeline_result.success =>
        \A a \in document :
            a.index \in DOMAIN recognized /\ recognized[a.index].is_graph
                => a.latex # "recognized"

IsSubstring(a, b) ==
    \E k \in 0..(Len(b) - Len(a)) : SubSeq(b, k + 1, k + Len(a)) = a

TokensDistinct ==
    /\ Cardinality(DOMAIN token_map) = placeholder_counter
    /\ DOMAIN token_map
          = {Token(scheme, n) : n \in 0..(placeholder_counter - 1)}
    /\ \A t, u \in DOMAIN token_map : t # u => ~IsSubstring(t, u)

\* C15: every allocation takes the next index, so that the tokens of a run
\* are as many as its allocations (no token carries two payloads), and no
\* token is a substring of another one.
C15_TokensUnique ==
    /\ []TokensDistinct
    /\ [][placeholder_counter' = placeholder_counter + 1]_placeholder_counter

\* C15 witness: a run has allocated tokens 1 and 10 to 11.
C15_Witness ==
    /\ placeholder_counter = 12
    /\ Token(scheme, 1) \in DOMAIN token_map
    /\ Token(scheme, 11) \in DOMAIN token_map

\* C16: extract applied to the masked text that extract returned finds no
\* formula and returns that text unchanged.
C16_DetectionIdempotent ==
    xpc = "extracted" => ExtractFormulas(result_text) = <<result_text, <<>>>>

\* C17: the markers of the masked text are numbered from left to right,
\* so that the two formulas \(x=1\)\(y=2\) become <<<FORMULA_0>>><<<FORMULA_1>>>.
C17_LeftToRight ==
    xpc = "extracted"
        /\ text = <<BS, "(", "x", "=", "1", BS, ")", BS, "(", "y", "=", "2", BS, ")">>
    => /\ result_text = Marker(0) \o Marker(1)
       /\ formulas = << <<BS, "(", "x", "=", "1", BS, ")">>,
                        <<BS, "(", "y", "=", "2", BS, ")">> >>

\* C18: no mutable state is shared between document runs; the page images
\* handed to the DOCX generator for a document are exactly those produced
\* from that same document, under any interleaving of two requests and for
\* any two successive runs.
C18_PageImagesOfOwnDocument ==
    \A r \in Requests :
        file_pc[r] = "done" => docx_page_images[r] = PageImages(r)

\* C19: while one run waits on a recognition request or on a retry delay,
\* another run of the same process that is ready to go on can take a step.
C19_WaitsAreSuspensions ==
    \A r, q \in Runs :
        (/\ r # q
         /\ runs[r].pc \in {"posting", "sleeping"}
         /\ runs[q].pc \in {"queued", "resumable"})
        => ENABLED ((HostStart(q) \/ HostResume(q)) /\ UNCHANGED HostOthers)

\* The entries of the batch log that are requests of the given item.
RequestsOf(item) ==
    {k \in 1..Len(batch_log) :
        batch_log[k].ev = "request" /\ batch_log[k].item = item}

\* What the requests of an item answered: the answer of the last one.
AnswerOf(item) ==
    IF RequestsOf(item) = {} THEN NoFormula
    ELSE batch_log[CHOOSE k \in RequestsOf(item) :
                      \A j \in RequestsOf(item) : j <= k].answer

DelaysAfter(item) ==
    {k \in 1..Len(batch_log) :
        batch_log[k].ev = "delay" /\ batch_log[k].item = item}

\* C20: recognize_batch processes the images one after another in input
\* order and returns one result per image at the same position; a failed
\* item yields a failure entry and the remaining items are still processed;
\* a delay lies between every two successive requests.
C20_BatchSequential ==
    /\ bpc \in {"off", "iterate", "recognizing", "returned"}
    /\ Len(results) = batch_index
    /\ batch_index <= Len(images)
    /\ bpc = "returned" => Len(results) = Len(images)
    /\ \A k \in 1..Len(results) :
          /\ results[k] = AnswerOf(k - 1)
          /\ ~(available /\ images[k]) => RequestsOf(k - 1) = {}
          /\ (available /\ images[k]) => RequestsOf(k - 1) # {}
          /\ Cardinality(DelaysAfter(k - 1))
                 = IF k - 1 < Len(images) - 1 THEN 1 ELSE 0
    /\ \A a, b \in 1..Len(batch_log) :
          a < b => batch_log[a].item <= batch_log[b].item
    /\ \A a \in 1..(Len(batch_log) - 1) :
          ~(batch_log[a].ev = "request" /\ batch_log[a + 1].ev = "request")

C20_Witness ==
    /\ bpc = "returned"
    /\ Len(images) = 2
    /\ images[1]
    /\ available
    /\ results[1] = NoFormula
    /\ results[2] # NoFormula

\* C21: a malformed or empty response is not retried: recognize issues no
\* further request after it; an empty response yields a result without
\* symbolic form; only timeouts, error statuses and 429 answers are
\* followed by another request.
C21_MalformedNotRetried ==
    \A k \in 1..Len(events) :
        events[k].ev = "request" =>
            /\ events[k].outcome.kind = "malformed" => k = Len(events)
            /\ (events[k].outcome.kind = "ok" /\ rpc = "done") =>
                  /\ k = Len(events)
                  /\ ~recognized_formula.none
                  /\ recognized_formula.latex = events[k].outcome.body.latex

\* C22: the wait after failed attempt a is backoff_factor * 2^a for a
\* timeout or an error status; for a 429 answer it is the Retry-After
\* value when the header carries one and backoff_factor * 2^a when the
\* header is absent.
C22_BackoffSchedule ==
    \A k \in 2..Len(events) :
        events[k].ev = "sleep" =>
            LET o == events[k - 1].outcome
                a == events[k - 1].attempt
            IN  CASE o.kind = "rate_limit" /\ o.retry_after.header = "seconds" ->
                       events[k].halves = 2 * o.retry_after.seconds
                  [] o.kind = "rate_limit" /\ o.retry_after.header = "date" ->
                       TRUE
                  [] OTHER ->
                       events[k].halves = Backoff(backoff_factor, a)

\* C30: recognize waits only between attempts: every sleep is followed by
\* another request, so a finished call does not end with a wait.
C30_NoWaitAfterFinalAttempt ==
    rpc = "done" /\ events # <<>> => events[Len(events)].ev = "request"

\* The matches extract accepts into all_matches, and those it then masks.
Accepted == CollectMatches(text, 1, <<>>)

Overlapping(m, a) == m[1] < a[2] /\ m[2] > a[1]

PassesFilters(m) ==
    /\ Len(Strip(Slice(text, m[1], m[2]))) >= MinFormulaLen
    /\ IsLikelyFormula(Slice(text, m[1], m[2]))

MatchesOf(p) == {FindIter(p, text, 0)[i] : i \in 1..Len(FindIter(p, text, 0))}

AcceptedSet == {Accepted[i] : i \in 1..Len(Accepted)}

C26_MaskedLengthBounded ==
    xpc = "extracted" =>
        \A k \in 1..Len(formulas) :
            /\ Len(Strip(formulas[k])) >= MinFormulaLen
            /\ Len(Strip(formulas[k])) <= MaxFormulaLen

\* C28: a match that passes the filters, and that overlaps no accepted match
\* other than ones the filters discard, is masked.
C28_DiscardedDoNotBlock ==
    xpc = "extracted" =>
        LET acc == AcceptedSet
            found == UNION {MatchesOf(p) : p \in 1..PatternCount}
            kept == {a \in acc : PassesFilters(a)}
        IN  \A m \in found :
                (/\ PassesFilters(m)
                 /\ \A a \in kept : a = m \/ ~Overlapping(m, a))
                => \E k \in 1..Len(formulas) :
                      formulas[k] = Slice(text, m[1], m[2])

\* C29: every recognition result that _recognize_formulas stores for a
\* formula was obtained from the image of the page on which that formula
\* occurs.
C29_RecognizedFromOwnPage ==
    \A i \in DOMAIN recognized_from : recognized_from[i] = formula_pages[i + 1]

\* C23: unmasking substitutes the tokens in descending index order: a token
\* is substituted before every token of a smaller index.
C23_DescendingRestoreOrder ==
    \A a, b \in 1..Len(restore_order) :
        a < b => restore_order[a] > restore_order[b]

\* The substitution loop over the entries its in the order given, and the
\* text returned after it.
RECURSIVE SubstituteAll(_, _)
SubstituteAll(t, its) ==
    IF its = <<>> THEN t
    ELSE SubstituteAll(Replace(t, Head(its).token, Head(its).payload),
                       Tail(its))

RestoredIn(sch, t, its) ==
    IF sch = "protected" /\ its # <<>>
    THEN NormalizeChemicalFormulas(SubstituteAll(t, its))
    ELSE SubstituteAll(t, its)

\* The orders in which the entries its can be visited.
OrdersOf(its) ==
    {[k \in 1..Len(its) |-> its[f[k]]] :
        f \in {g \in [1..Len(its) -> 1..Len(its)] :
                  \A a, b \in 1..Len(its) : a # b => g[a] # g[b]}}

DescendingOrder(its) == [k \in 1..Len(its) |-> its[Len(its) + 1 - k]]

\* C24: the text that unmasking returns does not depend on the order of
\* the substitutions: every order gives the text that the descending index
\* order gives.
C24_OrderIndependent ==
    upc \in {"masked", "restoring", "done"} =>
        LET descending == RestoredIn(unmask_scheme, masked,
                                     DescendingOrder(unmask_items))
        IN  \A order \in OrdersOf(unmask_items) :
                RestoredIn(unmask_scheme, masked, order) = descending

\* C27: every payload that _protect_formulas_and_notations stores is the
\* substring of the input that its placeholder replaced, and restoring the
\* masked text as it is gives back the input.
C27_MaskingKeepsContent ==
    unmask_scheme = "protected" =>
        /\ \A k \in 1..Len(unmask_items) :
               unmask_items[k].payload = unmask_items[k].source
        /\ upc = "done" => unmasked = input_text

=============================================================================
